---- MODULE Spec2Model ----
(***************************************************************************)
(* Business Lookup & Logistics Optimization Tool: the similarity scorer    *)
(* (similarity_scorer.py), the data model (models.py), the route optimizer *)
(* (logistics_optimizer.py, config.py), the normalizer                     *)
(* (data_normalizer.py), the industry discovery (industry_discovery.py),   *)
(* the search of app.py and the persistence (database.py) as state         *)
(* machines.                                                               *)
(*                                                                         *)
(* Conventions                                                             *)
(*  - An Optional[T] value is a sequence: <<>> is None, <<v>> is v.        *)
(*  - A Python str is the sequence of its characters, so "in" on strings   *)
(*    is containment of a contiguous run of characters.  Ids and enum      *)
(*    members, and names where they are only compared, are TLA+ strings.   *)
(*  - Where a call can raise, what it does is [returns |-> v] or           *)
(*    [raises |-> exception].                                              *)
(*  - A Python float is an IEEE-754 binary64 value; the arithmetic below   *)
(*    rounds every result to 53 significant bits, ties to even, as CPython *)
(*    does.  A float is held as a fixed-point natural number in units of   *)
(*    2^-FracBits, written as NumLimbs limbs of LimbBits bits, least       *)
(*    significant limb first.  The values that occur (0.01 .. 40) are all  *)
(*    multiples of 2^-FracBits.                                            *)
(***************************************************************************)
EXTENDS Integers, Sequences, FiniteSets, TLC

VARIABLES
    pc,            \* position of the call being executed: "start" or "done"
    reference,     \* score_company_similarity / rank_companies_by_similarity: reference
    target,        \* score_company_similarity: target
    scores,        \* score_company_similarity: the dict of the five sub-scores
    similarity,    \* score_company_similarity: the value returned
    company,       \* score_tax_saving_potential: company
    tax_scores,    \* score_tax_saving_potential: the dict of the five indicator scores
    tax_weighted,  \* score_tax_saving_potential: weighted_score
    potential,     \* score_tax_saving_potential: the value returned
    candidates,    \* rank_companies_by_similarity: candidates
    top_n,         \* rank_companies_by_similarity: top_n
    ranked,        \* the list a ranking function returned
    companies,     \* rank_companies_by_tax_potential, optimize_route: companies
    start_location,\* optimize_route: start_location
    route,         \* optimize_route: the Route returned
    tsp,           \* _solve_tsp_greedy: the locals distances, current, unvisited and tour
    location_schedule, \* LogisticsOptimizer.location_schedule
    days,          \* assign_companies_to_days: the dict returned
    clusters,      \* cluster_companies_by_region: the dict returned
    historical_data, \* suggest_best_outreach_days: historical_data
    best_days,     \* suggest_best_outreach_days: the dict returned
    target_industry, \* filter_companies_by_industry, _is_in_industry: industry_type
    db,            \* DatabaseManager: the rows of the tables of the database
    heap,          \* the list objects that Routes hold as companies, by address
    invocations,   \* optimize_route: the locals of each invocation in progress
    calls          \* the calls made so far, with their results

vars == <<pc, reference, target, scores, similarity, company, tax_scores, tax_weighted,
          potential, candidates, top_n, ranked, companies, start_location, route, calls,
          tsp, location_schedule, days, clusters, historical_data, best_days,
          target_industry, db, heap, invocations>>

----------------------------------------------------------------------------
(* Optional values *)

None == <<>>
Some(v) == <<v>>
IsNone(o) == o = <<>>
Val(o) == o[1]

Min(a, b) == IF a <= b THEN a ELSE b
Max(a, b) == IF a >= b THEN a ELSE b
Abs(a) == IF a < 0 THEN 0 - a ELSE a

----------------------------------------------------------------------------
(* binary64 arithmetic *)

LimbBits == 15
Base == 2 ^ LimbBits
NumLimbs == 9
FracBits == 4 * LimbBits
Mant == 53

\* the number whose limb i is f[i], as a sequence
Limbs(f) == <<f[1], f[2], f[3], f[4], f[5], f[6], f[7], f[8], f[9]>>

\* the number whose limbs are the terms t[i], each with the carry (or the
\* borrow, a negative carry) of the limbs below it
Carried(t) ==
    LET s1 == t[1]
        s2 == t[2] + s1 \div Base
        s3 == t[3] + s2 \div Base
        s4 == t[4] + s3 \div Base
        s5 == t[5] + s4 \div Base
        s6 == t[6] + s5 \div Base
        s7 == t[7] + s6 \div Base
        s8 == t[8] + s7 \div Base
        s9 == t[9] + s8 \div Base
    IN <<s1 % Base, s2 % Base, s3 % Base, s4 % Base, s5 % Base, s6 % Base, s7 % Base,
         s8 % Base, s9 % Base>>

LimbAt(x, i) == IF i >= 1 /\ i <= NumLimbs THEN x[i] ELSE 0

\* the natural number n * Base^(at-1)
BigUnit(n, at) == Limbs([i \in 1..NumLimbs |-> IF i = at THEN n ELSE 0])
BigZero == BigUnit(0, 1)
BigOne == BigUnit(1, 1)

BigAdd(x, y) == Carried([i \in 1..NumLimbs |-> x[i] + y[i]])

\* x - y for x >= y
BigSub(x, y) == Carried([i \in 1..NumLimbs |-> x[i] - y[i]])

\* x >= y: no limb of x is smaller with all limbs above it equal
BigGeq(x, y) ==
    ~\E i \in 1..NumLimbs : x[i] < y[i] /\ \A j \in (i + 1)..NumLimbs : x[j] = y[j]

\* x * d * Base^k for one limb d
BigMulRow(x, d, k) == Carried([i \in 1..NumLimbs |-> LimbAt(x, i - k) * d])

\* x * y: the sum of the rows of the limbs of y
BigMul(x, y) ==
    LET R(i) == IF y[i] = 0 THEN BigZero ELSE BigMulRow(x, y[i], i - 1)
    IN BigAdd(BigAdd(BigAdd(R(1), R(2)), BigAdd(R(3), R(4))),
              BigAdd(BigAdd(R(5), R(6)), BigAdd(BigAdd(R(7), R(8)), R(9))))

\* x * 2^n, k whole limbs and r bits
BigShl(x, n) ==
    LET k == n \div LimbBits
        r == n % LimbBits
    IN Limbs([i \in 1..NumLimbs |->
                 (LimbAt(x, i - k) % (2 ^ (LimbBits - r))) * (2 ^ r)
                 + LimbAt(x, i - 1 - k) \div (2 ^ (LimbBits - r))])

\* x \div 2^n
BigShr(x, n) ==
    LET k == n \div LimbBits
        r == n % LimbBits
    IN Limbs([i \in 1..NumLimbs |->
                 LimbAt(x, i + k) \div (2 ^ r)
                 + (LimbAt(x, i + 1 + k) % (2 ^ r)) * (2 ^ (LimbBits - r))])

\* the number of bits of x
BitLen(x) ==
    IF x = BigZero THEN 0
    ELSE LET top == CHOOSE i \in 1..NumLimbs :
                        x[i] # 0 /\ \A j \in (i + 1)..NumLimbs : x[j] = 0
         IN LimbBits * (top - 1)
            + (CHOOSE n \in 1..LimbBits : 2 ^ (n - 1) <= x[top] /\ x[top] < 2 ^ n)

BigBit(x, n) == (x[n \div LimbBits + 1] \div (2 ^ (n % LimbBits))) % 2

\* round to nearest, ties to even, keeping Mant significant bits
Round53(x) ==
    LET s == BitLen(x) - Mant
    IN IF s <= 0 THEN x
       ELSE LET q == BigShr(x, s)
                half == BigBit(x, s - 1) = 1
                sticky == BigShl(BigShr(x, s - 1), s - 1) # x
                odd == q[1] % 2 = 1
            IN BigShl(IF half /\ (sticky \/ odd) THEN BigAdd(q, BigOne) ELSE q, s)

\* float(n) for an int 0 <= n < Base
FInt(n) == BigUnit(n, FracBits \div LimbBits + 1)
\* a + b; adding 0.0 changes nothing
FAdd(a, b) ==
    IF a = BigZero THEN b
    ELSE IF b = BigZero THEN a
    ELSE Round53(BigAdd(a, b))
\* a * b; a product with 0.0 is 0.0
FMul(a, b) ==
    IF a = BigZero \/ b = BigZero THEN BigZero
    ELSE BigShr(Round53(BigMul(a, b)), FracBits)

\* n steps of binary long division, the first half before the second;
\* st = <<quotient, remainder>>.  Once the remainder is zero the steps left
\* only shift the quotient.
RECURSIVE DivSteps(_, _, _)
DivSteps(st, b, n) ==
    IF n = 0 THEN st
    ELSE IF n = 1
    THEN LET r2 == BigShl(st[2], 1)
             q2 == BigShl(st[1], 1)
         IN IF BigGeq(r2, b) THEN <<BigAdd(q2, BigOne), BigSub(r2, b)>> ELSE <<q2, r2>>
    ELSE LET half == DivSteps(st, b, n \div 2)
         IN IF half[2] = BigZero THEN <<BigShl(half[1], n - n \div 2), BigZero>>
            ELSE DivSteps(half, b, n - n \div 2)

\* a / b: Mant + 3 or more quotient bits, the remainder folded into the last
\* bit, then rounded.  x / x is 1.0 without the long division.
FDiv(a, b) ==
    IF a = b THEN FInt(1)
    ELSE LET la == BitLen(a)
             lb == BitLen(b)
             sh == IF la >= lb THEN la - lb + 1 ELSE 0
             k == Mant + 3 + (lb + sh - la)
             qr == DivSteps(<<BigZero, a>>, BigShl(b, sh), k)
             q == IF qr[2] = BigZero THEN qr[1]
                  ELSE BigAdd(BigShl(BigShr(qr[1], 1), 1), BigOne)
             e == FracBits + sh - k
         IN IF e >= 0 THEN BigShl(Round53(q), e) ELSE BigShr(Round53(q), 0 - e)

FGeq(a, b) == BigGeq(a, b)

\* the float a decimal literal n/d denotes: the nearest binary64 value
Dec(n, d) == FDiv(FInt(n), FInt(d))

\* the float literals of the source: the binary64 value of each decimal
Float ==
    "0.1" :> <<6560, 13107, 26214, 3276, 0, 0, 0, 0, 0>>
    @@ "0.15" :> <<26208, 19660, 6553, 4915, 0, 0, 0, 0, 0>>
    @@ "0.2" :> <<13120, 26214, 19660, 6553, 0, 0, 0, 0, 0>>
    @@ "0.25" :> <<0, 0, 0, 8192, 0, 0, 0, 0, 0>>
    @@ "0.3" :> <<19648, 6553, 13107, 9830, 0, 0, 0, 0, 0>>
    @@ "0.35" :> <<6528, 13107, 26214, 11468, 0, 0, 0, 0, 0>>
    @@ "0.4" :> <<26240, 19660, 6553, 13107, 0, 0, 0, 0, 0>>
    @@ "0.5" :> <<0, 0, 0, 16384, 0, 0, 0, 0, 0>>
    @@ "0.6" :> <<6528, 13107, 26214, 19660, 0, 0, 0, 0, 0>>
    @@ "0.7" :> <<13056, 26214, 19660, 22937, 0, 0, 0, 0, 0>>
    @@ "0.8" :> <<19712, 6553, 13107, 26214, 0, 0, 0, 0, 0>>
    @@ "0.9" :> <<26240, 19660, 6553, 29491, 0, 0, 0, 0, 0>>
    @@ "1.0" :> <<0, 0, 0, 0, 1, 0, 0, 0, 0>>

\* each literal above is the binary64 value of its decimal
FloatLiteralsOK ==
    /\ Float["0.1"] = Dec(1, 10) /\ Float["0.15"] = Dec(15, 100) /\ Float["0.2"] = Dec(2, 10)
    /\ Float["0.25"] = Dec(25, 100) /\ Float["0.3"] = Dec(3, 10) /\ Float["0.35"] = Dec(35, 100)
    /\ Float["0.4"] = Dec(4, 10) /\ Float["0.5"] = Dec(5, 10) /\ Float["0.6"] = Dec(6, 10)
    /\ Float["0.7"] = Dec(7, 10) /\ Float["0.8"] = Dec(8, 10) /\ Float["0.9"] = Dec(9, 10)
    /\ Float["1.0"] = FInt(1)

----------------------------------------------------------------------------
(* str *)

\* the lowercase of one character
LowerChar(c) ==
    LET upper == <<"A", "B", "C", "D", "E", "F", "G", "H", "I", "J", "K", "L", "M",
                   "N", "O", "P", "Q", "R", "S", "T", "U", "V", "W", "X", "Y", "Z">>
        lower == <<"a", "b", "c", "d", "e", "f", "g", "h", "i", "j", "k", "l", "m",
                   "n", "o", "p", "q", "r", "s", "t", "u", "v", "w", "x", "y", "z">>
    IN IF \E i \in 1..Len(upper) : upper[i] = c
       THEN lower[CHOOSE i \in 1..Len(upper) : upper[i] = c]
       ELSE c

\* s.lower()
RECURSIVE LowerFrom(_, _)
LowerFrom(s, acc) ==
    IF Len(acc) = Len(s) THEN acc
    ELSE LowerFrom(s, Append(acc, LowerChar(s[Len(acc) + 1])))
Lower(s) == LowerFrom(s, <<>>)

\* kw in s
Contains(s, kw) ==
    \E i \in 1..(Len(s) - Len(kw) + 1) : SubSeq(s, i, i + Len(kw) - 1) = kw

\* any(kw in s for kw in kws) without the first element of kws
AnyInButFirst(kws, s) == \E k \in 2..Len(kws) : Contains(s, kws[k])

\* any(kw in s for kw in kws)
AnyIn(kws, s) == \E k \in 1..Len(kws) : Contains(s, kws[k])

\* s[:n]
Prefix(s, n) == SubSeq(s, 1, Min(n, Len(s)))

\* bool(o) for an Optional[str] or a str-valued field: None and "" are falsy
Truthy(o) == ~IsNone(o) /\ Val(o) # <<>>

\* set(xs)
Range(xs) == {xs[i] : i \in 1..Len(xs)}

\* the str values that occur, each as the sequence of its characters
Str ==
    "" :> <<>>
    @@ "1 Office Way" :> <<"1", " ", "O", "f", "f", "i", "c", "e", " ", "W", "a", "y">>
    @@ "123 Main St" :> <<"1", "2", "3", " ", "M", "a", "i", "n", " ", "S", "t">>
    @@ "1500" :> <<"1", "5", "0", "0">>
    @@ "236" :> <<"2", "3", "6">>
    @@ "311" :> <<"3", "1", "1">>
    @@ "333" :> <<"3", "3", "3">>
    @@ "336" :> <<"3", "3", "6">>
    @@ "3500" :> <<"3", "5", "0", "0">>
    @@ "456 Oak St" :> <<"4", "5", "6", " ", "O", "a", "k", " ", "S", "t">>
    @@ "53202" :> <<"5", "3", "2", "0", "2">>
    @@ "53299" :> <<"5", "3", "2", "9", "9">>
    @@ "53703" :> <<"5", "3", "7", "0", "3">>
    @@ "60601" :> <<"6", "0", "6", "0", "1">>
    @@ "Automotive" :> <<"A", "u", "t", "o", "m", "o", "t", "i", "v", "e">>
    @@ "Chicago" :> <<"C", "h", "i", "c", "a", "g", "o">>
    @@ "Commercial" :> <<"C", "o", "m", "m", "e", "r", "c", "i", "a", "l">>
    @@ "Construction" :> <<"C", "o", "n", "s", "t", "r", "u", "c", "t", "i", "o", "n">>
    @@ "Equipment Upgrade" :> <<"E", "q", "u", "i", "p", "m", "e", "n", "t", " ", "U", "p", "g", "r", "a", "d", "e">>
    @@ "Food Processing" :> <<"F", "o", "o", "d", " ", "P", "r", "o", "c", "e", "s", "s", "i", "n", "g">>
    @@ "Hiring Engineers" :> <<"H", "i", "r", "i", "n", "g", " ", "E", "n", "g", "i", "n", "e", "e", "r", "s">>
    @@ "IL" :> <<"I", "L">>
    @@ "Machinery" :> <<"M", "a", "c", "h", "i", "n", "e", "r", "y">>
    @@ "Madison" :> <<"M", "a", "d", "i", "s", "o", "n">>
    @@ "Major government contract" :> <<"M", "a", "j", "o", "r", " ", "g", "o", "v", "e", "r", "n", "m", "e", "n", "t", " ", "c", "o", "n", "t", "r", "a", "c", "t">>
    @@ "Manufacturing" :> <<"M", "a", "n", "u", "f", "a", "c", "t", "u", "r", "i", "n", "g">>
    @@ "Milwaukee" :> <<"M", "i", "l", "w", "a", "u", "k", "e", "e">>
    @@ "Monday" :> <<"M", "o", "n", "d", "a", "y">>
    @@ "New facility opened" :> <<"N", "e", "w", " ", "f", "a", "c", "i", "l", "i", "t", "y", " ", "o", "p", "e", "n", "e", "d">>
    @@ "New leadership team" :> <<"N", "e", "w", " ", "l", "e", "a", "d", "e", "r", "s", "h", "i", "p", " ", "t", "e", "a", "m">>
    @@ "No bids so far" :> <<"N", "o", " ", "b", "i", "d", "s", " ", "s", "o", " ", "f", "a", "r">>
    @@ "Owner planning retirement" :> <<"O", "w", "n", "e", "r", " ", "p", "l", "a", "n", "n", "i", "n", "g", " ", "r", "e", "t", "i", "r", "e", "m", "e", "n", "t">>
    @@ "Retail" :> <<"R", "e", "t", "a", "i", "l">>
    @@ "Routine maintenance" :> <<"R", "o", "u", "t", "i", "n", "e", " ", "m", "a", "i", "n", "t", "e", "n", "a", "n", "c", "e">>
    @@ "Services" :> <<"S", "e", "r", "v", "i", "c", "e", "s">>
    @@ "Significant hiring planned" :> <<"S", "i", "g", "n", "i", "f", "i", "c", "a", "n", "t", " ", "h", "i", "r", "i", "n", "g", " ", "p", "l", "a", "n", "n", "e", "d">>
    @@ "Stable headcount" :> <<"S", "t", "a", "b", "l", "e", " ", "h", "e", "a", "d", "c", "o", "u", "n", "t">>
    @@ "State contract pending" :> <<"S", "t", "a", "t", "e", " ", "c", "o", "n", "t", "r", "a", "c", "t", " ", "p", "e", "n", "d", "i", "n", "g">>
    @@ "Succession plan in place" :> <<"S", "u", "c", "c", "e", "s", "s", "i", "o", "n", " ", "p", "l", "a", "n", " ", "i", "n", " ", "p", "l", "a", "c", "e">>
    @@ "Tuesday" :> <<"T", "u", "e", "s", "d", "a", "y">>
    @@ "WI" :> <<"W", "I">>
    @@ "Welding" :> <<"W", "e", "l", "d", "i", "n", "g">>
    @@ "Waukesha" :> <<"W", "a", "u", "k", "e", "s", "h", "a">>
    @@ "West Milwaukee" :> <<"W", "e", "s", "t", " ", "M", "i", "l", "w", "a", "u", "k", "e", "e">>
    @@ "Jackson" :> <<"J", "a", "c", "k", "s", "o", "n">>
    @@ "West Bend" :> <<"W", "e", "s", "t", " ", "B", "e", "n", "d">>
    @@ "Kenosha" :> <<"K", "e", "n", "o", "s", "h", "a">>
    @@ "Racine" :> <<"R", "a", "c", "i", "n", "e">>
    @@ "West Waukesha" :> <<"W", "e", "s", "t", " ", "W", "a", "u", "k", "e", "s", "h", "a">>
    @@ "Follow-up" :> <<"F", "o", "l", "l", "o", "w", "-", "u", "p">>
    @@ "RACINE" :> <<"R", "A", "C", "I", "N", "E">>
    @@ "West" :> <<"W", "e", "s", "t">>
    @@ "Waukesha,West Milwaukee,Jackson,West Bend" :> <<"W", "a", "u", "k", "e", "s", "h", "a", ",", "W", "e", "s", "t", " ", "M", "i", "l", "w", "a", "u", "k", "e", "e", ",", "J", "a", "c", "k", "s", "o", "n", ",", "W", "e", "s", "t", " ", "B", "e", "n", "d">>
    @@ "Kenosha,Racine" :> <<"K", "e", "n", "o", "s", "h", "a", ",", "R", "a", "c", "i", "n", "e">>
    @@ "West Waukesha,Madison" :> <<"W", "e", "s", "t", " ", "W", "a", "u", "k", "e", "s", "h", "a", ",", "M", "a", "d", "i", "s", "o", "n">>
    @@ "Milwaukee,Madison" :> <<"M", "i", "l", "w", "a", "u", "k", "e", "e", ",", "M", "a", "d", "i", "s", "o", "n">>
    @@ "789 Pine St" :> <<"7", "8", "9", " ", "P", "i", "n", "e", " ", "S", "t">>
    @@ "53140" :> <<"5", "3", "1", "4", "0">>
    @@ "construction" :> <<"c", "o", "n", "s", "t", "r", "u", "c", "t", "i", "o", "n">>
    @@ "contractor" :> <<"c", "o", "n", "t", "r", "a", "c", "t", "o", "r">>
    @@ "builder" :> <<"b", "u", "i", "l", "d", "e", "r">>
    @@ "engineering" :> <<"e", "n", "g", "i", "n", "e", "e", "r", "i", "n", "g">>
    @@ "architect" :> <<"a", "r", "c", "h", "i", "t", "e", "c", "t">>
    @@ "hvac" :> <<"h", "v", "a", "c">>
    @@ "electrical" :> <<"e", "l", "e", "c", "t", "r", "i", "c", "a", "l">>
    @@ "plumbing" :> <<"p", "l", "u", "m", "b", "i", "n", "g">>
    @@ "concrete" :> <<"c", "o", "n", "c", "r", "e", "t", "e">>
    @@ "framing" :> <<"f", "r", "a", "m", "i", "n", "g">>
    @@ "insulation" :> <<"i", "n", "s", "u", "l", "a", "t", "i", "o", "n">>
    @@ "excavation" :> <<"e", "x", "c", "a", "v", "a", "t", "i", "o", "n">>
    @@ "site prep" :> <<"s", "i", "t", "e", " ", "p", "r", "e", "p">>
    @@ "modular" :> <<"m", "o", "d", "u", "l", "a", "r">>
    @@ "prefab" :> <<"p", "r", "e", "f", "a", "b">>
    @@ "building materials" :> <<"b", "u", "i", "l", "d", "i", "n", "g", " ", "m", "a", "t", "e", "r", "i", "a", "l", "s">>
    @@ "steel" :> <<"s", "t", "e", "e", "l">>
    @@ "lumber" :> <<"l", "u", "m", "b", "e", "r">>
    @@ "glass" :> <<"g", "l", "a", "s", "s">>
    @@ "precast" :> <<"p", "r", "e", "c", "a", "s", "t">>
    @@ "fasteners" :> <<"f", "a", "s", "t", "e", "n", "e", "r", "s">>
    @@ "coatings" :> <<"c", "o", "a", "t", "i", "n", "g", "s">>
    @@ "manufacturing" :> <<"m", "a", "n", "u", "f", "a", "c", "t", "u", "r", "i", "n", "g">>
    @@ "manufacturer" :> <<"m", "a", "n", "u", "f", "a", "c", "t", "u", "r", "e", "r">>
    @@ "industrial" :> <<"i", "n", "d", "u", "s", "t", "r", "i", "a", "l">>
    @@ "machinery" :> <<"m", "a", "c", "h", "i", "n", "e", "r", "y">>
    @@ "automation" :> <<"a", "u", "t", "o", "m", "a", "t", "i", "o", "n">>
    @@ "oem" :> <<"o", "e", "m">>
    @@ "supplier" :> <<"s", "u", "p", "p", "l", "i", "e", "r">>
    @@ "component" :> <<"c", "o", "m", "p", "o", "n", "e", "n", "t">>
    @@ "fabricator" :> <<"f", "a", "b", "r", "i", "c", "a", "t", "o", "r">>
    @@ "fabrication" :> <<"f", "a", "b", "r", "i", "c", "a", "t", "i", "o", "n">>
    @@ "plastic" :> <<"p", "l", "a", "s", "t", "i", "c">>
    @@ "composite" :> <<"c", "o", "m", "p", "o", "s", "i", "t", "e">>
    @@ "metal" :> <<"m", "e", "t", "a", "l">>
    @@ "stamping" :> <<"s", "t", "a", "m", "p", "i", "n", "g">>
    @@ "machining" :> <<"m", "a", "c", "h", "i", "n", "i", "n", "g">>
    @@ "aerospace" :> <<"a", "e", "r", "o", "s", "p", "a", "c", "e">>
    @@ "automotive" :> <<"a", "u", "t", "o", "m", "o", "t", "i", "v", "e">>
    @@ "equipment" :> <<"e", "q", "u", "i", "p", "m", "e", "n", "t">>
    @@ "robotics" :> <<"r", "o", "b", "o", "t", "i", "c", "s">>
    @@ "cnc" :> <<"c", "n", "c">>
    @@ "injection molding" :> <<"i", "n", "j", "e", "c", "t", "i", "o", "n", " ", "m", "o", "l", "d", "i", "n", "g">>
    @@ "food processing" :> <<"f", "o", "o", "d", " ", "p", "r", "o", "c", "e", "s", "s", "i", "n", "g">>
    @@ "packaging" :> <<"p", "a", "c", "k", "a", "g", "i", "n", "g">>
    @@ "trucking" :> <<"t", "r", "u", "c", "k", "i", "n", "g">>
    @@ "logistics" :> <<"l", "o", "g", "i", "s", "t", "i", "c", "s">>
    @@ "freight" :> <<"f", "r", "e", "i", "g", "h", "t">>
    @@ "carrier" :> <<"c", "a", "r", "r", "i", "e", "r">>
    @@ "ltl" :> <<"l", "t", "l">>
    @@ "ftl" :> <<"f", "t", "l">>
    @@ "last-mile" :> <<"l", "a", "s", "t", "-", "m", "i", "l", "e">>
    @@ "delivery" :> <<"d", "e", "l", "i", "v", "e", "r", "y">>
    @@ "refrigerated" :> <<"r", "e", "f", "r", "i", "g", "e", "r", "a", "t", "e", "d">>
    @@ "transport" :> <<"t", "r", "a", "n", "s", "p", "o", "r", "t">>
    @@ "tanker" :> <<"t", "a", "n", "k", "e", "r">>
    @@ "fleet" :> <<"f", "l", "e", "e", "t">>
    @@ "heavy equipment" :> <<"h", "e", "a", "v", "y", " ", "e", "q", "u", "i", "p", "m", "e", "n", "t">>
    @@ "warehousing" :> <<"w", "a", "r", "e", "h", "o", "u", "s", "i", "n", "g">>
    @@ "distribution" :> <<"d", "i", "s", "t", "r", "i", "b", "u", "t", "i", "o", "n">>
    @@ "supply chain" :> <<"s", "u", "p", "p", "l", "y", " ", "c", "h", "a", "i", "n">>
    @@ "fleet maintenance" :> <<"f", "l", "e", "e", "t", " ", "m", "a", "i", "n", "t", "e", "n", "a", "n", "c", "e">>
    @@ "intermodal" :> <<"i", "n", "t", "e", "r", "m", "o", "d", "a", "l">>
    @@ "hazardous material" :> <<"h", "a", "z", "a", "r", "d", "o", "u", "s", " ", "m", "a", "t", "e", "r", "i", "a", "l">>
    @@ "general contractor" :> <<"g", "e", "n", "e", "r", "a", "l", " ", "c", "o", "n", "t", "r", "a", "c", "t", "o", "r">>
    @@ "General Contractors" :> <<"G", "e", "n", "e", "r", "a", "l", " ", "C", "o", "n", "t", "r", "a", "c", "t", "o", "r", "s">>
    @@ "Engineering Firms" :> <<"E", "n", "g", "i", "n", "e", "e", "r", "i", "n", "g", " ", "F", "i", "r", "m", "s">>
    @@ "Specialty Trade Contractors" :> <<"S", "p", "e", "c", "i", "a", "l", "t", "y", " ", "T", "r", "a", "d", "e", " ", "C", "o", "n", "t", "r", "a", "c", "t", "o", "r", "s">>
    @@ "Excavation & Site Prep" :> <<"E", "x", "c", "a", "v", "a", "t", "i", "o", "n", " ", "&", " ", "S", "i", "t", "e", " ", "P", "r", "e", "p">>
    @@ "Modular & Prefab Construction" :> <<"M", "o", "d", "u", "l", "a", "r", " ", "&", " ", "P", "r", "e", "f", "a", "b", " ", "C", "o", "n", "s", "t", "r", "u", "c", "t", "i", "o", "n">>
    @@ "Building Materials Suppliers" :> <<"B", "u", "i", "l", "d", "i", "n", "g", " ", "M", "a", "t", "e", "r", "i", "a", "l", "s", " ", "S", "u", "p", "p", "l", "i", "e", "r", "s">>
    @@ "Other Construction" :> <<"O", "t", "h", "e", "r", " ", "C", "o", "n", "s", "t", "r", "u", "c", "t", "i", "o", "n">>
    @@ "industrial machinery" :> <<"i", "n", "d", "u", "s", "t", "r", "i", "a", "l", " ", "m", "a", "c", "h", "i", "n", "e", "r", "y">>
    @@ "Industrial Machinery & Automation" :> <<"I", "n", "d", "u", "s", "t", "r", "i", "a", "l", " ", "M", "a", "c", "h", "i", "n", "e", "r", "y", " ", "&", " ", "A", "u", "t", "o", "m", "a", "t", "i", "o", "n">>
    @@ "OEM Suppliers & Component Manufacturers" :> <<"O", "E", "M", " ", "S", "u", "p", "p", "l", "i", "e", "r", "s", " ", "&", " ", "C", "o", "m", "p", "o", "n", "e", "n", "t", " ", "M", "a", "n", "u", "f", "a", "c", "t", "u", "r", "e", "r", "s">>
    @@ "Fabricators" :> <<"F", "a", "b", "r", "i", "c", "a", "t", "o", "r", "s">>
    @@ "Aerospace, Automotive & Heavy Equipment" :> <<"A", "e", "r", "o", "s", "p", "a", "c", "e", ",", " ", "A", "u", "t", "o", "m", "o", "t", "i", "v", "e", " ", "&", " ", "H", "e", "a", "v", "y", " ", "E", "q", "u", "i", "p", "m", "e", "n", "t">>
    @@ "Robotics & Automation" :> <<"R", "o", "b", "o", "t", "i", "c", "s", " ", "&", " ", "A", "u", "t", "o", "m", "a", "t", "i", "o", "n">>
    @@ "Injection Molding & Composite Materials" :> <<"I", "n", "j", "e", "c", "t", "i", "o", "n", " ", "M", "o", "l", "d", "i", "n", "g", " ", "&", " ", "C", "o", "m", "p", "o", "s", "i", "t", "e", " ", "M", "a", "t", "e", "r", "i", "a", "l", "s">>
    @@ "Food Processing & Packaging" :> <<"F", "o", "o", "d", " ", "P", "r", "o", "c", "e", "s", "s", "i", "n", "g", " ", "&", " ", "P", "a", "c", "k", "a", "g", "i", "n", "g">>
    @@ "Other Manufacturing" :> <<"O", "t", "h", "e", "r", " ", "M", "a", "n", "u", "f", "a", "c", "t", "u", "r", "i", "n", "g">>
    @@ "Trucking & Logistics" :> <<"T", "r", "u", "c", "k", "i", "n", "g", " ", "&", " ", "L", "o", "g", "i", "s", "t", "i", "c", "s">>
    @@ "Freight Carriers" :> <<"F", "r", "e", "i", "g", "h", "t", " ", "C", "a", "r", "r", "i", "e", "r", "s">>
    @@ "Refrigerated Transport & Tanker Fleets" :> <<"R", "e", "f", "r", "i", "g", "e", "r", "a", "t", "e", "d", " ", "T", "r", "a", "n", "s", "p", "o", "r", "t", " ", "&", " ", "T", "a", "n", "k", "e", "r", " ", "F", "l", "e", "e", "t", "s">>
    @@ "Heavy Equipment Transporters" :> <<"H", "e", "a", "v", "y", " ", "E", "q", "u", "i", "p", "m", "e", "n", "t", " ", "T", "r", "a", "n", "s", "p", "o", "r", "t", "e", "r", "s">>
    @@ "Warehousing & Distribution" :> <<"W", "a", "r", "e", "h", "o", "u", "s", "i", "n", "g", " ", "&", " ", "D", "i", "s", "t", "r", "i", "b", "u", "t", "i", "o", "n">>
    @@ "Logistics Technology & Supply Chain" :> <<"L", "o", "g", "i", "s", "t", "i", "c", "s", " ", "T", "e", "c", "h", "n", "o", "l", "o", "g", "y", " ", "&", " ", "S", "u", "p", "p", "l", "y", " ", "C", "h", "a", "i", "n">>
    @@ "Fleet Maintenance & Repair" :> <<"F", "l", "e", "e", "t", " ", "M", "a", "i", "n", "t", "e", "n", "a", "n", "c", "e", " ", "&", " ", "R", "e", "p", "a", "i", "r">>
    @@ "Intermodal & Hazardous Material Haulers" :> <<"I", "n", "t", "e", "r", "m", "o", "d", "a", "l", " ", "&", " ", "H", "a", "z", "a", "r", "d", "o", "u", "s", " ", "M", "a", "t", "e", "r", "i", "a", "l", " ", "H", "a", "u", "l", "e", "r", "s">>
    @@ "Other Trucking & Logistics" :> <<"O", "t", "h", "e", "r", " ", "T", "r", "u", "c", "k", "i", "n", "g", " ", "&", " ", "L", "o", "g", "i", "s", "t", "i", "c", "s">>
    @@ "Other" :> <<"O", "t", "h", "e", "r">>
    @@ "owner" :> <<"o", "w", "n", "e", "r">>
    @@ "founder" :> <<"f", "o", "u", "n", "d", "e", "r">>
    @@ "president" :> <<"p", "r", "e", "s", "i", "d", "e", "n", "t">>
    @@ "ceo" :> <<"c", "e", "o">>
    @@ "principal" :> <<"p", "r", "i", "n", "c", "i", "p", "a", "l">>
    @@ "llc" :> <<"l", "l", "c">>
    @@ "family" :> <<"f", "a", "m", "i", "l", "y">>
    @@ "proprietor" :> <<"p", "r", "o", "p", "r", "i", "e", "t", "o", "r">>
    @@ "& sons" :> <<"&", " ", "s", "o", "n", "s">>
    @@ "& son" :> <<"&", " ", "s", "o", "n">>
    @@ "brothers" :> <<"b", "r", "o", "t", "h", "e", "r", "s">>
    @@ "& co" :> <<"&", " ", "c", "o">>
    @@ "hiring" :> <<"h", "i", "r", "i", "n", "g">>
    @@ "expanding" :> <<"e", "x", "p", "a", "n", "d", "i", "n", "g">>
    @@ "growth" :> <<"g", "r", "o", "w", "t", "h">>
    @@ "new positions" :> <<"n", "e", "w", " ", "p", "o", "s", "i", "t", "i", "o", "n", "s">>
    @@ "job openings" :> <<"j", "o", "b", " ", "o", "p", "e", "n", "i", "n", "g", "s">>
    @@ "career" :> <<"c", "a", "r", "e", "e", "r">>
    @@ "join our team" :> <<"j", "o", "i", "n", " ", "o", "u", "r", " ", "t", "e", "a", "m">>
    @@ "expansion" :> <<"e", "x", "p", "a", "n", "s", "i", "o", "n">>
    @@ "new facility" :> <<"n", "e", "w", " ", "f", "a", "c", "i", "l", "i", "t", "y">>
    @@ "new location" :> <<"n", "e", "w", " ", "l", "o", "c", "a", "t", "i", "o", "n">>
    @@ "growing" :> <<"g", "r", "o", "w", "i", "n", "g">>
    @@ "increased capacity" :> <<"i", "n", "c", "r", "e", "a", "s", "e", "d", " ", "c", "a", "p", "a", "c", "i", "t", "y">>
    @@ "new equipment" :> <<"n", "e", "w", " ", "e", "q", "u", "i", "p", "m", "e", "n", "t">>
    @@ "investment" :> <<"i", "n", "v", "e", "s", "t", "m", "e", "n", "t">>
    @@ "funding" :> <<"f", "u", "n", "d", "i", "n", "g">>
    @@ "capital" :> <<"c", "a", "p", "i", "t", "a", "l">>
    @@ "loan" :> <<"l", "o", "a", "n">>
    @@ "financing" :> <<"f", "i", "n", "a", "n", "c", "i", "n", "g">>
    @@ "23" :> <<"2", "3">>
    @@ "237" :> <<"2", "3", "7">>
    @@ "238" :> <<"2", "3", "8">>
    @@ "2361" :> <<"2", "3", "6", "1">>
    @@ "2362" :> <<"2", "3", "6", "2">>
    @@ "2371" :> <<"2", "3", "7", "1">>
    @@ "2372" :> <<"2", "3", "7", "2">>
    @@ "2373" :> <<"2", "3", "7", "3">>
    @@ "2379" :> <<"2", "3", "7", "9">>
    @@ "2381" :> <<"2", "3", "8", "1">>
    @@ "2382" :> <<"2", "3", "8", "2">>
    @@ "2383" :> <<"2", "3", "8", "3">>
    @@ "2389" :> <<"2", "3", "8", "9">>
    @@ "31" :> <<"3", "1">>
    @@ "32" :> <<"3", "2">>
    @@ "33" :> <<"3", "3">>
    @@ "331" :> <<"3", "3", "1">>
    @@ "332" :> <<"3", "3", "2">>
    @@ "334" :> <<"3", "3", "4">>
    @@ "335" :> <<"3", "3", "5">>
    @@ "337" :> <<"3", "3", "7">>
    @@ "339" :> <<"3", "3", "9">>
    @@ "3311" :> <<"3", "3", "1", "1">>
    @@ "3312" :> <<"3", "3", "1", "2">>
    @@ "3313" :> <<"3", "3", "1", "3">>
    @@ "3314" :> <<"3", "3", "1", "4">>
    @@ "3315" :> <<"3", "3", "1", "5">>
    @@ "3321" :> <<"3", "3", "2", "1">>
    @@ "3322" :> <<"3", "3", "2", "2">>
    @@ "3323" :> <<"3", "3", "2", "3">>
    @@ "3324" :> <<"3", "3", "2", "4">>
    @@ "3325" :> <<"3", "3", "2", "5">>
    @@ "3326" :> <<"3", "3", "2", "6">>
    @@ "3327" :> <<"3", "3", "2", "7">>
    @@ "3328" :> <<"3", "3", "2", "8">>
    @@ "3329" :> <<"3", "3", "2", "9">>
    @@ "48" :> <<"4", "8">>
    @@ "484" :> <<"4", "8", "4">>
    @@ "4841" :> <<"4", "8", "4", "1">>
    @@ "4842" :> <<"4", "8", "4", "2">>
    @@ "493" :> <<"4", "9", "3">>
    @@ "4931" :> <<"4", "9", "3", "1">>
    @@ "49311" :> <<"4", "9", "3", "1", "1">>
    @@ "49312" :> <<"4", "9", "3", "1", "2">>
    @@ "49313" :> <<"4", "9", "3", "1", "3">>
    @@ "49319" :> <<"4", "9", "3", "1", "9">>
    @@ "company1" :> <<"c", "o", "m", "p", "a", "n", "y", "1">>
    @@ "company2" :> <<"c", "o", "m", "p", "a", "n", "y", "2">>
    @@ "company3" :> <<"c", "o", "m", "p", "a", "n", "y", "3">>
    @@ "company4" :> <<"c", "o", "m", "p", "a", "n", "y", "4">>
    @@ "company5" :> <<"c", "o", "m", "p", "a", "n", "y", "5">>
    @@ "company6" :> <<"c", "o", "m", "p", "a", "n", "y", "6">>
    @@ "company7" :> <<"c", "o", "m", "p", "a", "n", "y", "7">>
    @@ "company8" :> <<"c", "o", "m", "p", "a", "n", "y", "8">>
    @@ "Smith & Sons" :> <<"S", "m", "i", "t", "h", " ", "&", " ", "S", "o", "n", "s">>
    @@ "Steel fabricator" :> <<"S", "t", "e", "e", "l", " ", "f", "a", "b", "r", "i", "c", "a", "t", "o", "r">>
    @@ "4841" :> <<"4", "8", "4", "1">>
    @@ "Regional freight carrier" :> <<"R", "e", "g", "i", "o", "n", "a", "l", " ", "f", "r", "e", "i", "g", "h", "t", " ", "c", "a", "r", "r", "i", "e", "r">>
    @@ "Smith" :> <<"S", "m", "i", "t", "h">>
    @@ "Owner" :> <<"O", "w", "n", "e", "r">>
    @@ "Bank loan approved" :> <<"B", "a", "n", "k", " ", "l", "o", "a", "n", " ", "a", "p", "p", "r", "o", "v", "e", "d">>
    @@ "LLC" :> <<"L", "L", "C">>
    @@ "S-Corp" :> <<"S", "-", "C", "o", "r", "p">>
    @@ "C-Corp" :> <<"C", "-", "C", "o", "r", "p">>
    @@ "Family-Owned Business" :> <<"F", "a", "m", "i", "l", "y", "-", "O", "w", "n", "e", "d", " ", "B", "u", "s", "i", "n", "e", "s", "s">>
    @@ "Partnership" :> <<"P", "a", "r", "t", "n", "e", "r", "s", "h", "i", "p">>
    @@ "Sole Proprietorship" :> <<"S", "o", "l", "e", " ", "P", "r", "o", "p", "r", "i", "e", "t", "o", "r", "s", "h", "i", "p">>
    @@ "Other" :> <<"O", "t", "h", "e", "r">>
    @@ " 12 " :> <<" ", "1", "2", " ">>
    @@ "+5" :> <<"+", "5">>
    @@ "-1,000" :> <<"-", "1", ",", "0", "0", "0">>
    @@ "-5" :> <<"-", "5">>
    @@ "0" :> <<"0">>
    @@ "1,000" :> <<"1", ",", "0", "0", "0">>
    @@ "1,000+" :> <<"1", ",", "0", "0", "0", "+">>
    @@ "1,000-5,000" :> <<"1", ",", "0", "0", "0", "-", "5", ",", "0", "0", "0">>
    @@ "1-2-3" :> <<"1", "-", "2", "-", "3">>
    @@ "10 - 50" :> <<"1", "0", " ", "-", " ", "5", "0">>
    @@ "10-" :> <<"1", "0", "-">>
    @@ "10-50" :> <<"1", "0", "-", "5", "0">>
    @@ "1_000" :> <<"1", "_", "0", "0", "0">>
    @@ "250" :> <<"2", "5", "0">>
    @@ "3-4" :> <<"3", "-", "4">>
    @@ "5+" :> <<"5", "+">>
    @@ "50-10" :> <<"5", "0", "-", "1", "0">>
    @@ "Acme Family Farms" :> <<"A", "c", "m", "e", " ", "F", "a", "m", "i", "l", "y", " ", "F", "a", "r", "m", "s">>
    @@ "Architecture" :> <<"A", "r", "c", "h", "i", "t", "e", "c", "t", "u", "r", "e">>
    @@ "CNC Machining" :> <<"C", "N", "C", " ", "M", "a", "c", "h", "i", "n", "i", "n", "g">>
    @@ "Co-Founder & CEO" :> <<"C", "o", "-", "F", "o", "u", "n", "d", "e", "r", " ", "&", " ", "C", "E", "O">>
    @@ "Excavation" :> <<"E", "x", "c", "a", "v", "a", "t", "i", "o", "n">>
    @@ "Fleet Maintenance" :> <<"F", "l", "e", "e", "t", " ", "M", "a", "i", "n", "t", "e", "n", "a", "n", "c", "e">>
    @@ "Freight Carrier" :> <<"F", "r", "e", "i", "g", "h", "t", " ", "C", "a", "r", "r", "i", "e", "r">>
    @@ "General Contractor" :> <<"G", "e", "n", "e", "r", "a", "l", " ", "C", "o", "n", "t", "r", "a", "c", "t", "o", "r">>
    @@ "HVAC Contractor" :> <<"H", "V", "A", "C", " ", "C", "o", "n", "t", "r", "a", "c", "t", "o", "r">>
    @@ "Heavy Equipment Transport" :> <<"H", "e", "a", "v", "y", " ", "E", "q", "u", "i", "p", "m", "e", "n", "t", " ", "T", "r", "a", "n", "s", "p", "o", "r", "t">>
    @@ "Industrial Automation" :> <<"I", "n", "d", "u", "s", "t", "r", "i", "a", "l", " ", "A", "u", "t", "o", "m", "a", "t", "i", "o", "n">>
    @@ "Intermodal" :> <<"I", "n", "t", "e", "r", "m", "o", "d", "a", "l">>
    @@ "Jones & Co" :> <<"J", "o", "n", "e", "s", " ", "&", " ", "C", "o">>
    @@ "Logistics" :> <<"L", "o", "g", "i", "s", "t", "i", "c", "s">>
    @@ "Manager" :> <<"M", "a", "n", "a", "g", "e", "r">>
    @@ "Metal Stamping" :> <<"M", "e", "t", "a", "l", " ", "S", "t", "a", "m", "p", "i", "n", "g">>
    @@ "Miller Brothers" :> <<"M", "i", "l", "l", "e", "r", " ", "B", "r", "o", "t", "h", "e", "r", "s">>
    @@ "Modular Homes" :> <<"M", "o", "d", "u", "l", "a", "r", " ", "H", "o", "m", "e", "s">>
    @@ "OEM Supplier" :> <<"O", "E", "M", " ", "S", "u", "p", "p", "l", "i", "e", "r">>
    @@ "Plastic Injection Molding" :> <<"P", "l", "a", "s", "t", "i", "c", " ", "I", "n", "j", "e", "c", "t", "i", "o", "n", " ", "M", "o", "l", "d", "i", "n", "g">>
    @@ "Refrigerated Transport" :> <<"R", "e", "f", "r", "i", "g", "e", "r", "a", "t", "e", "d", " ", "T", "r", "a", "n", "s", "p", "o", "r", "t">>
    @@ "Robotics" :> <<"R", "o", "b", "o", "t", "i", "c", "s">>
    @@ "Sales Manager" :> <<"S", "a", "l", "e", "s", " ", "M", "a", "n", "a", "g", "e", "r">>
    @@ "Steel Fabrication" :> <<"S", "t", "e", "e", "l", " ", "F", "a", "b", "r", "i", "c", "a", "t", "i", "o", "n">>
    @@ "Trucking" :> <<"T", "r", "u", "c", "k", "i", "n", "g">>
    @@ "Warehousing" :> <<"W", "a", "r", "e", "h", "o", "u", "s", "i", "n", "g">>
    @@ "abc" :> <<"a", "b", "c">>
    @@ "ten-50" :> <<"t", "e", "n", "-", "5", "0">>
    @@ "company9" :> <<"c", "o", "m", "p", "a", "n", "y", "9">>
    @@ "Waukesha, WI" :> <<"W", "a", "u", "k", "e", "s", "h", "a", ",", " ", "W", "I">>
    @@ "Kenosha, WI" :> <<"K", "e", "n", "o", "s", "h", "a", ",", " ", "W", "I">>
    @@ "Madison, WI" :> <<"M", "a", "d", "i", "s", "o", "n", ",", " ", "W", "I">>
    @@ "Milwaukee, WI" :> <<"M", "i", "l", "w", "a", "u", "k", "e", "e", ",", " ", "W", "I">>
    @@ "Wednesday" :> <<"W", "e", "d", "n", "e", "s", "d", "a", "y">>
    @@ "Thursday" :> <<"T", "h", "u", "r", "s", "d", "a", "y">>
    @@ "Friday" :> <<"F", "r", "i", "d", "a", "y">>
    @@ "High" :> <<"H", "i", "g", "h">>
    @@ "Medium" :> <<"M", "e", "d", "i", "u", "m">>
    @@ "Low" :> <<"L", "o", "w">>
    @@ "Jones" :> <<"J", "o", "n", "e", "s">>
    @@ "President" :> <<"P", "r", "e", "s", "i", "d", "e", "n", "t">>

----------------------------------------------------------------------------
(* models.py *)

\* LegalStructure: the member names
LegalStructure ==
    {"LLC", "S_CORP", "C_CORP", "FAMILY_OWNED", "PARTNERSHIP", "SOLE_PROPRIETORSHIP", "OTHER"}

\* LegalStructure.<member>.value
LegalValue(m) ==
    CASE m = "LLC" -> "LLC"
      [] m = "S_CORP" -> "S-Corp"
      [] m = "C_CORP" -> "C-Corp"
      [] m = "FAMILY_OWNED" -> "Family-Owned Business"
      [] m = "PARTNERSHIP" -> "Partnership"
      [] m = "SOLE_PROPRIETORSHIP" -> "Sole Proprietorship"
      [] m = "OTHER" -> "Other"

\* TaxSavingPotential: the member names
TaxSavingPotential == {"HIGH", "MEDIUM", "LOW"}

\* latitude and longitude in hundredths of a degree
GeoLocation(latitude, longitude, region) ==
    [latitude |-> latitude, longitude |-> longitude, region |-> region]

Address(street, city, state, zip) ==
    [street |-> street, city |-> city, state |-> state, zip |-> zip, country |-> "USA"]

Industry(primary, naics_code, sic_code, subcategories) ==
    [primary |-> primary, naics_code |-> naics_code, sic_code |-> sic_code,
     subcategories |-> subcategories]

\* Financials(): every field None
Financials ==
    [employee_count |-> None, estimated_revenue |-> None, growth_rate |-> None,
     capex_trends |-> None, payroll_trends |-> None]

\* TaxIndicators(): every text None, tax_saving_potential LOW
TaxIndicators ==
    [recent_developments |-> None, grants_subsidies |-> None, government_contracts |-> None,
     succession_planning |-> None, financing_activity |-> None,
     tax_saving_potential |-> "LOW"]

\* Company(id=id, name=name): the optional fields absent, Financials() and
\* TaxIndicators() from the default factories
Company(id, name) ==
    [id |-> id, name |-> name, description |-> None, address |-> None,
     legal_structure |-> None, industry |-> None, executives |-> <<>>,
     financials |-> Some(Financials), tax_indicators |-> Some(TaxIndicators),
     location |-> None, website |-> None]

----------------------------------------------------------------------------
(* similarity_scorer.py: SimilarityScorer *)

\* a variant of the weights in which growth counts 0.2: they sum to 1.1
similarity_weights_sum_above_one ==
    [industry |-> Float["0.35"], size |-> Float["0.25"], location |-> Float["0.2"],
     legal_structure |-> Float["0.1"], growth |-> Float["0.2"]]

\* self.similarity_weights, in insertion order
SimilarityKeys == <<"industry", "size", "location", "legal_structure", "growth">>
similarity_weights ==
    [industry |-> Float["0.35"], size |-> Float["0.25"], location |-> Float["0.2"],
     legal_structure |-> Float["0.1"], growth |-> Float["0.1"]]

\* self.tax_potential_weights, in insertion order
TaxKeys == <<"growth_rate", "hiring_expansion", "equipment_upgrades",
             "succession_planning", "government_contracts">>
tax_potential_weights ==
    [growth_rate |-> Float["0.3"], hiring_expansion |-> Float["0.2"], equipment_upgrades |-> Float["0.2"],
     succession_planning |-> Float["0.15"], government_contracts |-> Float["0.15"]]

\* sum(scores[key] * weights[key] for key in scores): the products are added
\* from left to right, starting from the int 0, each sum rounded.
\* st = <<keys added, sum so far>>
RECURSIVE WeightedSumFrom(_, _, _, _)
WeightedSumFrom(sc, weights, keys, st) ==
    IF st[1] = Len(keys) THEN st[2]
    ELSE LET p == FMul(sc[keys[st[1] + 1]], weights[keys[st[1] + 1]])
         IN WeightedSumFrom(sc, weights, keys,
                <<st[1] + 1, IF st[1] = 0 THEN p ELSE FAdd(st[2], p)>>)
WeightedSum(sc, weights, keys) == WeightedSumFrom(sc, weights, keys, <<0, BigZero>>)

\* a variant that does not divide by the larger number of subcategories
OverlapScoreUndivided(n_overlap, n1, n2) ==
    FAdd(Float["0.5"], FMul(Float["0.3"], FInt(n_overlap)))

\* 0.5 + (0.3 * len(overlap) / max(len(subcategories1), len(subcategories2)))
OverlapScore(n_overlap, n1, n2) ==
    FAdd(Float["0.5"], FDiv(FMul(Float["0.3"], FInt(n_overlap)), FInt(Max(n1, n2))))

\* a variant that compares the codes before the primary labels
_score_industry_similarity_codes_first(company1, company2) ==
    IF IsNone(company1.industry) \/ IsNone(company2.industry) THEN Float["0.1"]
    ELSE LET i1 == Val(company1.industry)
             i2 == Val(company2.industry)
             subcategories1 == Range(i1.subcategories)
             subcategories2 == Range(i2.subcategories)
             overlap == subcategories1 \cap subcategories2
         IN IF Truthy(i1.naics_code) /\ Truthy(i2.naics_code)
               /\ i1.naics_code = i2.naics_code THEN Float["0.9"]
            ELSE IF Truthy(i1.sic_code) /\ Truthy(i2.sic_code)
                    /\ i1.sic_code = i2.sic_code THEN Float["0.9"]
            ELSE IF i1.primary = i2.primary THEN Float["1.0"]
            ELSE IF Truthy(i1.naics_code) /\ Truthy(i2.naics_code)
                    /\ Prefix(Val(i1.naics_code), 2) = Prefix(Val(i2.naics_code), 2)
                 THEN Float["0.8"]
            ELSE IF Truthy(i1.naics_code) /\ Truthy(i2.naics_code)
                    /\ Val(i1.naics_code)[1] = Val(i2.naics_code)[1]
                 THEN Float["0.6"]
            ELSE IF overlap # {}
                 THEN OverlapScore(Cardinality(overlap), Cardinality(subcategories1),
                                   Cardinality(subcategories2))
            ELSE Float["0.2"]

_score_industry_similarity(company1, company2) ==
    IF IsNone(company1.industry) \/ IsNone(company2.industry) THEN Float["0.1"]
    ELSE LET i1 == Val(company1.industry)
             i2 == Val(company2.industry)
             subcategories1 == Range(i1.subcategories)
             subcategories2 == Range(i2.subcategories)
             overlap == subcategories1 \cap subcategories2
         IN IF i1.primary = i2.primary THEN Float["1.0"]
            ELSE IF Truthy(i1.naics_code) /\ Truthy(i2.naics_code)
                    /\ i1.naics_code = i2.naics_code THEN Float["0.9"]
            ELSE IF Truthy(i1.sic_code) /\ Truthy(i2.sic_code)
                    /\ i1.sic_code = i2.sic_code THEN Float["0.9"]
            ELSE IF Truthy(i1.naics_code) /\ Truthy(i2.naics_code)
                    /\ Prefix(Val(i1.naics_code), 2) = Prefix(Val(i2.naics_code), 2)
                 THEN Float["0.8"]
            ELSE IF Truthy(i1.naics_code) /\ Truthy(i2.naics_code)
                    /\ Val(i1.naics_code)[1] = Val(i2.naics_code)[1]
                 THEN Float["0.6"]
            ELSE IF subcategories1 # {} /\ subcategories2 # {} /\ overlap # {}
                 THEN OverlapScore(Cardinality(overlap), Cardinality(subcategories1),
                                   Cardinality(subcategories2))
            ELSE Float["0.2"]

\* np.log10 of a power of ten, where it is exact: 10 -> 1.0, 100 -> 2.0, ...
RECURSIVE Log10(_)
Log10(v) == IF v = 10 THEN 1 ELSE 1 + Log10(v \div 10)

\* a variant of the ratio that divides the first log by the second
LogRatioFirstBySecond(floor, v1, v2) ==
    FDiv(FInt(Log10(Max(floor, v1))), FInt(Log10(Max(floor, v2))))

\* min(log1, log2) / max(log1, log2) of the logs of max(floor, v1), max(floor, v2)
LogRatio(floor, v1, v2) ==
    LET log1 == FInt(Log10(Max(floor, v1)))
        log2 == FInt(Log10(Max(floor, v2)))
    IN IF FGeq(log1, log2) THEN FDiv(log2, log1) ELSE FDiv(log1, log2)

_score_size_similarity(company1, company2) ==
    IF IsNone(company1.financials) \/ IsNone(company2.financials) THEN Float["0.5"]
    ELSE LET f1 == Val(company1.financials)
             f2 == Val(company2.financials)
             employee_similarity ==
                 IF ~IsNone(f1.employee_count) /\ ~IsNone(f2.employee_count)
                 THEN LogRatio(10, Val(f1.employee_count), Val(f2.employee_count))
                 ELSE Float["0.5"]
             revenue_similarity ==
                 IF ~IsNone(f1.estimated_revenue) /\ ~IsNone(f2.estimated_revenue)
                 THEN LogRatio(10000, Val(f1.estimated_revenue), Val(f2.estimated_revenue))
                 ELSE Float["0.5"]
         IN FAdd(FMul(Float["0.6"], employee_similarity), FMul(Float["0.4"], revenue_similarity))

\* a variant whose last rule does not compare the states
_score_location_similarity_any_state(company1, company2) ==
    IF IsNone(company1.address) \/ IsNone(company2.address) THEN Float["0.1"]
    ELSE LET a1 == Val(company1.address)
             a2 == Val(company2.address)
         IN IF a1.street = a2.street /\ a1.city = a2.city /\ a1.state = a2.state THEN Float["1.0"]
            ELSE IF a1.city = a2.city /\ a1.state = a2.state THEN Float["0.9"]
            ELSE IF a1.state = a2.state /\ a1.zip # <<>> /\ a2.zip # <<>>
                    /\ Prefix(a1.zip, 3) = Prefix(a2.zip, 3) THEN Float["0.8"]
            ELSE Float["0.6"]

_score_location_similarity(company1, company2) ==
    IF IsNone(company1.address) \/ IsNone(company2.address) THEN Float["0.1"]
    ELSE LET a1 == Val(company1.address)
             a2 == Val(company2.address)
         IN IF a1.street = a2.street /\ a1.city = a2.city /\ a1.state = a2.state THEN Float["1.0"]
            ELSE IF a1.city = a2.city /\ a1.state = a2.state THEN Float["0.9"]
            ELSE IF a1.state = a2.state /\ a1.zip # <<>> /\ a2.zip # <<>>
                    /\ Prefix(a1.zip, 3) = Prefix(a2.zip, 3) THEN Float["0.8"]
            ELSE IF a1.state = a2.state THEN Float["0.6"]
            ELSE Float["0.2"]

corp_types == {"C-Corp", "S-Corp"}
owner_operated_types == {"LLC", "Family-Owned Business", "Partnership", "Sole Proprietorship"}

\* a variant without the exact-match rule: only the two groups are compared
_score_legal_structure_similarity_groups_only(company1, company2) ==
    IF IsNone(company1.legal_structure) \/ IsNone(company2.legal_structure) THEN Float["0.5"]
    ELSE LET l1 == Val(company1.legal_structure)
             l2 == Val(company2.legal_structure)
         IN IF LegalValue(l1) \in corp_types /\ LegalValue(l2) \in corp_types THEN Float["0.8"]
            ELSE IF LegalValue(l1) \in owner_operated_types
                    /\ LegalValue(l2) \in owner_operated_types THEN Float["0.7"]
            ELSE Float["0.3"]

_score_legal_structure_similarity(company1, company2) ==
    IF IsNone(company1.legal_structure) \/ IsNone(company2.legal_structure) THEN Float["0.5"]
    ELSE LET l1 == Val(company1.legal_structure)
             l2 == Val(company2.legal_structure)
         IN IF l1 = l2 THEN Float["1.0"]
            ELSE IF LegalValue(l1) \in corp_types /\ LegalValue(l2) \in corp_types THEN Float["0.8"]
            ELSE IF LegalValue(l1) \in owner_operated_types
                    /\ LegalValue(l2) \in owner_operated_types THEN Float["0.7"]
            ELSE Float["0.3"]

\* growth rates are integer-valued floats here, so their difference is exact
_score_growth_similarity(company1, company2) ==
    IF IsNone(company1.financials) \/ IsNone(company2.financials) THEN Float["0.5"]
    ELSE LET g1 == Val(company1.financials).growth_rate
             g2 == Val(company2.financials).growth_rate
             diff == Abs(Val(g1) - Val(g2))
         IN IF ~IsNone(g1) /\ ~IsNone(g2)
            THEN IF diff <= 2 THEN Float["1.0"]
                 ELSE IF diff <= 5 THEN Float["0.8"]
                 ELSE IF diff <= 10 THEN Float["0.6"]
                 ELSE IF diff <= 20 THEN Float["0.4"]
                 ELSE Float["0.2"]
            ELSE Float["0.5"]

\* the dict scores of score_company_similarity
SimilarityScores(ref, tgt) ==
    [industry |-> _score_industry_similarity(ref, tgt),
     size |-> _score_size_similarity(ref, tgt),
     location |-> _score_location_similarity(ref, tgt),
     legal_structure |-> _score_legal_structure_similarity(ref, tgt),
     growth |-> _score_growth_similarity(ref, tgt)]

score_company_similarity(ref, tgt) ==
    WeightedSum(SimilarityScores(ref, tgt), similarity_weights, SimilarityKeys)

----------------------------------------------------------------------------
(* Bounded inputs of the similarity scorer *)

\* employee counts run over 10^1 .. 10^MaxLog and revenues over 10^4 .. 10^(3 + MaxLog),
\* with one value below each floor
MaxLog == 3

RECURSIVE Pow10(_)
Pow10(k) == IF k = 0 THEN 1 ELSE 10 * Pow10(k - 1)

Industries ==
    { None,
      Some(Industry(Str["Manufacturing"], Some(Str["333"]), Some(Str["3500"]), <<Str["Machinery"]>>)),
      Some(Industry(Str["Machinery"], Some(Str["333"]), None, <<>>)),
      Some(Industry(Str["Automotive"], Some(Str["336"]), Some(Str["3500"]), <<Str["Welding"], Str["Welding"]>>)),
      Some(Industry(Str["Welding"], Some(Str["336"]), None, <<>>)),
      Some(Industry(Str["Food Processing"], Some(Str["311"]), None, <<Str["Commercial"]>>)),
      Some(Industry(Str["Services"], Some(Str["236"]), Some(Str[""]), <<Str["Welding"], Str["Machinery"]>>)),
      Some(Industry(Str["Retail"], Some(Str[""]), None, <<Str["Machinery"], Str["Welding"]>>)),
      Some(Industry(Str["Construction"], Some(Str["236"]), Some(Str["1500"]), <<Str["Commercial"]>>)),
      Some(Industry(Str["Commercial"], None, None, <<>>)) }

Addresses ==
    { None,
      Some(Address(Str["123 Main St"], Str["Milwaukee"], Str["WI"], Str["53202"])),
      Some(Address(Str["456 Oak St"], Str["Milwaukee"], Str["WI"], Str["53202"])),
      Some(Address(Str["456 Oak St"], Str["Madison"], Str["WI"], Str["53299"])),
      Some(Address(Str["123 Main St"], Str["Madison"], Str["WI"], Str["53703"])),
      Some(Address(Str["123 Main St"], Str["Madison"], Str["WI"], Str[""])),
      Some(Address(Str["123 Main St"], Str["Chicago"], Str["IL"], Str["60601"])),
      Some(Address(Str["123 Main St"], Str["Milwaukee"], Str["IL"], Str["53202"])) }

\* Financials(employee_count=e, estimated_revenue=r, growth_rate=g)
Fin(e, r, g) ==
    Some([Financials EXCEPT !.employee_count = e, !.estimated_revenue = r,
                            !.growth_rate = g])

\* a profile is the part of a Company the similarity scorer reads
Profile(i, a, l, f) == [industry |-> i, address |-> a, legal_structure |-> l, financials |-> f]

\* Company(id=id, name=id, **profile)
MakeCompany(id, p) ==
    [Company(id, id) EXCEPT !.industry = p.industry, !.address = p.address,
                            !.legal_structure = p.legal_structure,
                            !.financials = p.financials]

BaseProfile ==
    Profile(Some(Industry(Str["Manufacturing"], Some(Str["333"]), Some(Str["3500"]), <<Str["Machinery"]>>)),
            Some(Address(Str["123 Main St"], Str["Milwaukee"], Str["WI"], Str["53202"])),
            Some("LLC"), Fin(Some(100), Some(Pow10(6)), Some(5)))

OtherProfile ==
    Profile(Some(Industry(Str["Construction"], Some(Str["236"]), Some(Str["1500"]), <<Str["Commercial"]>>)),
            Some(Address(Str["456 Oak St"], Str["Chicago"], Str["IL"], Str["60601"])),
            Some("C_CORP"), Fin(Some(10), Some(Pow10(4)), Some(25)))

\* p with only the fields in keep present
Keep(p, keep) ==
    Profile(IF "industry" \in keep THEN p.industry ELSE None,
            IF "address" \in keep THEN p.address ELSE None,
            IF "legal_structure" \in keep THEN p.legal_structure ELSE None,
            IF "financials" \in keep
            THEN IF "growth_rate" \in keep THEN p.financials
                 ELSE Some([Val(p.financials) EXCEPT !.growth_rate = None])
            ELSE None)

\* the pairs of profiles compared
Pairs ==
    LET Fields == {"industry", "address", "financials", "legal_structure", "growth_rate"}
        LegalStructures == {None} \cup {Some(m) : m \in LegalStructure}
        EmployeeCounts == {None, Some(5)} \cup {Some(Pow10(k)) : k \in 1..MaxLog}
        Revenues == {None, Some(1000)} \cup {Some(Pow10(3 + k)) : k \in 1..MaxLog}
        GrowthRates == {None} \cup {Some(g) : g \in {0, 2, 5, 10, 20, 25}}
    IN  \* every combination of present and absent fields on both sides
        {<<Keep(BaseProfile, k1), Keep(OtherProfile, k2)>> :
            k1 \in SUBSET Fields, k2 \in SUBSET Fields}
        \cup
        \* one field varying over its values on both sides, the others as in BaseProfile
        {<<[BaseProfile EXCEPT !.industry = i1], [BaseProfile EXCEPT !.industry = i2]>> :
            i1 \in Industries, i2 \in Industries}
        \cup
        {<<[BaseProfile EXCEPT !.address = a1], [BaseProfile EXCEPT !.address = a2]>> :
            a1 \in Addresses, a2 \in Addresses}
        \cup
        {<<[BaseProfile EXCEPT !.legal_structure = l1],
           [BaseProfile EXCEPT !.legal_structure = l2]>> :
            l1 \in LegalStructures, l2 \in LegalStructures}
        \cup
        {<<[BaseProfile EXCEPT !.financials = Fin(Some(100), Some(Pow10(6)), g1)],
           [BaseProfile EXCEPT !.financials = Fin(Some(100), Some(Pow10(6)), g2)]>> :
            g1 \in GrowthRates, g2 \in GrowthRates}
        \cup
        {<<[BaseProfile EXCEPT !.financials = Fin(e1, r, Some(5))],
           [BaseProfile EXCEPT !.financials = Fin(e2, r, Some(5))]>> :
            e1 \in EmployeeCounts, e2 \in EmployeeCounts, r \in {None, Some(Pow10(6))}}
        \cup
        {<<[BaseProfile EXCEPT !.financials = Fin(Some(100), r1, Some(5))],
           [BaseProfile EXCEPT !.financials = Fin(Some(100), r2, Some(5))]>> :
            r1 \in Revenues, r2 \in Revenues}
        \cup
        \* a manufacturing company in Wisconsin against a construction company in
        \* Illinois, over sizes, legal structures and growth rates
        {<<[BaseProfile EXCEPT !.legal_structure = l1,
                               !.financials = Fin(e1, Some(Pow10(6)), g1)],
           [OtherProfile EXCEPT !.legal_structure = l2,
                                !.financials = Fin(e2, Some(Pow10(6)), g2)]>> :
            l1 \in {None, Some("LLC"), Some("C_CORP")},
            l2 \in {None, Some("LLC"), Some("C_CORP")},
            e1 \in {Some(10), Some(Pow10(MaxLog))}, e2 \in {Some(10), Some(Pow10(MaxLog))},
            g1 \in {None, Some(0), Some(25)}, g2 \in {None, Some(0), Some(25)}}

\* every variable a call does not take as an argument holds the value it has
\* before any call: nothing returned, no list passed
Idle(arguments) ==
    /\ IF "reference" \in arguments THEN TRUE ELSE reference = None
    /\ IF "target" \in arguments THEN TRUE ELSE target = None
    /\ IF "scores" \in arguments THEN TRUE ELSE scores = None
    /\ IF "similarity" \in arguments THEN TRUE ELSE similarity = None
    /\ IF "company" \in arguments THEN TRUE ELSE company = None
    /\ IF "tax_scores" \in arguments THEN TRUE ELSE tax_scores = None
    /\ IF "tax_weighted" \in arguments THEN TRUE ELSE tax_weighted = None
    /\ IF "potential" \in arguments THEN TRUE ELSE potential = None
    /\ IF "candidates" \in arguments THEN TRUE ELSE candidates = <<>>
    /\ IF "top_n" \in arguments THEN TRUE ELSE top_n = 0
    /\ IF "ranked" \in arguments THEN TRUE ELSE ranked = None
    /\ IF "companies" \in arguments THEN TRUE ELSE companies = <<>>
    /\ IF "start_location" \in arguments THEN TRUE ELSE start_location = None
    /\ IF "route" \in arguments THEN TRUE ELSE route = None
    /\ IF "calls" \in arguments THEN TRUE ELSE calls = <<>>
    /\ IF "invocations" \in arguments THEN TRUE ELSE invocations = <<>>
    /\ IF "heap" \in arguments THEN TRUE ELSE heap = <<>>
    /\ IF "db" \in arguments THEN TRUE ELSE db = <<>>
    /\ IF "target_industry" \in arguments THEN TRUE ELSE target_industry = None
    /\ IF "best_days" \in arguments THEN TRUE ELSE best_days = None
    /\ IF "historical_data" \in arguments THEN TRUE ELSE historical_data = None
    /\ IF "clusters" \in arguments THEN TRUE ELSE clusters = None
    /\ IF "days" \in arguments THEN TRUE ELSE days = None
    /\ IF "location_schedule" \in arguments THEN TRUE ELSE location_schedule = None
    /\ IF "tsp" \in arguments THEN TRUE ELSE tsp = None

\* the variables an action leaves alone: all but those it assigns
Frame(assigned) ==
    /\ IF "pc" \in assigned THEN TRUE ELSE pc' = pc
    /\ IF "reference" \in assigned THEN TRUE ELSE reference' = reference
    /\ IF "target" \in assigned THEN TRUE ELSE target' = target
    /\ IF "scores" \in assigned THEN TRUE ELSE scores' = scores
    /\ IF "similarity" \in assigned THEN TRUE ELSE similarity' = similarity
    /\ IF "company" \in assigned THEN TRUE ELSE company' = company
    /\ IF "tax_scores" \in assigned THEN TRUE ELSE tax_scores' = tax_scores
    /\ IF "tax_weighted" \in assigned THEN TRUE ELSE tax_weighted' = tax_weighted
    /\ IF "potential" \in assigned THEN TRUE ELSE potential' = potential
    /\ IF "candidates" \in assigned THEN TRUE ELSE candidates' = candidates
    /\ IF "top_n" \in assigned THEN TRUE ELSE top_n' = top_n
    /\ IF "ranked" \in assigned THEN TRUE ELSE ranked' = ranked
    /\ IF "companies" \in assigned THEN TRUE ELSE companies' = companies
    /\ IF "start_location" \in assigned THEN TRUE ELSE start_location' = start_location
    /\ IF "route" \in assigned THEN TRUE ELSE route' = route
    /\ IF "calls" \in assigned THEN TRUE ELSE calls' = calls
    /\ IF "invocations" \in assigned THEN TRUE ELSE invocations' = invocations
    /\ IF "heap" \in assigned THEN TRUE ELSE heap' = heap
    /\ IF "db" \in assigned THEN TRUE ELSE db' = db
    /\ IF "target_industry" \in assigned THEN TRUE ELSE target_industry' = target_industry
    /\ IF "best_days" \in assigned THEN TRUE ELSE best_days' = best_days
    /\ IF "historical_data" \in assigned THEN TRUE ELSE historical_data' = historical_data
    /\ IF "clusters" \in assigned THEN TRUE ELSE clusters' = clusters
    /\ IF "days" \in assigned THEN TRUE ELSE days' = days
    /\ IF "location_schedule" \in assigned THEN TRUE ELSE location_schedule' = location_schedule
    /\ IF "tsp" \in assigned THEN TRUE ELSE tsp' = tsp

----------------------------------------------------------------------------
(* score_company_similarity(reference, target) *)

\* the target is another company with the second profile, the reference itself,
\* or another company with the reference's profile
InitSim ==
    /\ FloatLiteralsOK
    /\ pc = "start"
    /\ \E pr \in Pairs :
          /\ reference = Some(MakeCompany("company1", pr[1]))
          /\ target \in {Some(MakeCompany("company2", pr[2])),
                         Some(MakeCompany("company1", pr[1])),
                         Some(MakeCompany("company2", pr[1]))}
    /\ Idle({"reference", "target"})

ScoreCompanySimilarity ==
    /\ pc = "start"
    /\ ~IsNone(reference) /\ ~IsNone(target)
    /\ scores' = Some(SimilarityScores(Val(reference), Val(target)))
    /\ similarity' = Some(WeightedSum(Val(scores'), similarity_weights, SimilarityKeys))
    /\ pc' = "done"
    /\ Frame({"pc", "scores", "similarity"})

SpecSim == InitSim /\ [][ScoreCompanySimilarity]_vars

----------------------------------------------------------------------------
(* Properties of score_company_similarity *)

InUnitInterval(x) == FGeq(x, BigZero) /\ FGeq(Float["1.0"], x)

\* C1: for every pair of companies, with any combination of present and absent
\* industry, address, financials, legal structure and growth rate, each of the five
\* sub-scores and the score returned lie in the closed interval [0, 1].
C1_ScoreInUnitInterval ==
    pc = "done" =>
        /\ \A k \in Range(SimilarityKeys) : InUnitInterval(Val(scores)[k])
        /\ InUnitInterval(Val(similarity))

\* C1 witness: a scored pair in which the reference lacks industry and legal
\* structure and the target lacks address and financials.
C1_Witness ==
    /\ pc = "done"
    /\ IsNone(Val(reference).industry) /\ IsNone(Val(reference).legal_structure)
    /\ ~IsNone(Val(reference).address) /\ ~IsNone(Val(reference).financials)
    /\ IsNone(Val(target).address) /\ IsNone(Val(target).financials)
    /\ ~IsNone(Val(target).industry) /\ ~IsNone(Val(target).legal_structure)
    /\ InUnitInterval(Val(similarity))

\* industry, address, legal structure and financials with employee count, revenue
\* and growth rate are all present
FullyPopulated(c) ==
    /\ ~IsNone(c.industry) /\ ~IsNone(c.address) /\ ~IsNone(c.legal_structure)
    /\ ~IsNone(c.financials)
    /\ ~IsNone(Val(c.financials).employee_count)
    /\ ~IsNone(Val(c.financials).estimated_revenue)
    /\ ~IsNone(Val(c.financials).growth_rate)

\* C2: a fully-populated company compared with itself scores exactly 1.0, and each
\* of the five sub-scores is 1.0.
C2_SelfSimilarityIsOne ==
    (pc = "done" /\ target = reference /\ FullyPopulated(Val(reference))) =>
        /\ \A k \in Range(SimilarityKeys) : Val(scores)[k] = Float["1.0"]
        /\ Val(similarity) = Float["1.0"]

\* C2 witness: a fully-populated company whose legal structure is in neither
\* group, scored against itself.
C2_Witness ==
    /\ pc = "done" /\ target = reference /\ FullyPopulated(Val(reference))
    /\ Val(reference).legal_structure = Some("OTHER")
    /\ Val(similarity) = Float["1.0"]

\* C3: the score and each of the five sub-scores are the same with the two
\* companies exchanged.
C3_Symmetric ==
    pc = "done" =>
        /\ SimilarityScores(Val(target), Val(reference)) = Val(scores)
        /\ score_company_similarity(Val(target), Val(reference)) = Val(similarity)

\* C3 witness: two companies with different employee counts and different
\* industries have been scored.
C3_Witness ==
    /\ pc = "done" /\ target # reference
    /\ FullyPopulated(Val(reference)) /\ FullyPopulated(Val(target))
    /\ Val(Val(reference).financials).employee_count
         # Val(Val(target).financials).employee_count
    /\ Val(reference).industry # Val(target).industry
    /\ Val(scores).size # Float["1.0"]

\* the target is another company with the reference's industry, address and
\* size (employee count and revenue), all present: only id and name differ
DifferOnlyByNameAndId(ref, tgt) ==
    /\ tgt.id # ref.id /\ tgt.name # ref.name
    /\ tgt = [ref EXCEPT !.id = tgt.id, !.name = tgt.name]
    /\ ~IsNone(ref.industry) /\ ~IsNone(ref.address) /\ ~IsNone(ref.financials)
    /\ ~IsNone(Val(ref.financials).employee_count)
    /\ ~IsNone(Val(ref.financials).estimated_revenue)

\* a manufacturing company and a construction company with addresses in
\* different states
ManufacturingVsConstructionAcrossStates(ref, tgt) ==
    /\ ~IsNone(ref.industry) /\ ~IsNone(tgt.industry)
    /\ Val(ref.industry).primary = Str["Manufacturing"]
    /\ Val(tgt.industry).primary = Str["Construction"]
    /\ ~IsNone(ref.address) /\ ~IsNone(tgt.address)
    /\ Val(ref.address).state # Val(tgt.address).state

\* C5 as stated: two companies that differ only by name and id score at least
\* 0.9, and a manufacturing company against a construction company in another
\* state scores at most 0.3 whatever their size, legal structure and growth.
C5_AsStated ==
    pc = "done" =>
        /\ DifferOnlyByNameAndId(Val(reference), Val(target))
           => FGeq(Val(similarity), Float["0.9"])
        /\ ManufacturingVsConstructionAcrossStates(Val(reference), Val(target))
           => FGeq(Float["0.3"], Val(similarity))

\* C5: two companies that differ only by name and id score at least 0.9; a
\* manufacturing company against a construction company in another state, sharing
\* no code and no subcategory, scores at most 0.56 (not 0.3).
C5_ScenarioBounds ==
    pc = "done" =>
        /\ DifferOnlyByNameAndId(Val(reference), Val(target))
           => FGeq(Val(similarity), Float["0.9"])
        /\ (/\ ManufacturingVsConstructionAcrossStates(Val(reference), Val(target))
            /\ Val(scores).industry = Float["0.2"])
           => FGeq(Dec(56, 100), Val(similarity))

\* C5 witness: a manufacturing company and a construction company in different
\* states with the same size, legal structure and growth rate, scored above 0.5.
C5_Witness ==
    /\ pc = "done"
    /\ ManufacturingVsConstructionAcrossStates(Val(reference), Val(target))
    /\ Val(reference).financials = Val(target).financials
    /\ ~IsNone(Val(reference).legal_structure)
    /\ Val(reference).legal_structure = Val(target).legal_structure
    /\ Val(scores).industry = Float["0.2"] /\ Val(scores).location = Float["0.2"]
    /\ FGeq(Val(similarity), Float["0.5"])

----------------------------------------------------------------------------
(* _score_industry_similarity(company1, company2), called repeatedly *)

\* the number of calls recorded
MaxCalls == 2

InitIndustry ==
    /\ FloatLiteralsOK
    /\ pc = "start"
    /\ Idle({})

ScoreIndustrySimilarity ==
    /\ pc = "start"
    /\ \E i1 \in Industries, i2 \in Industries :
          LET company1 == MakeCompany("company1", [BaseProfile EXCEPT !.industry = i1])
              company2 == MakeCompany("company2", [BaseProfile EXCEPT !.industry = i2])
          IN calls' = Append(calls, [company1 |-> company1, company2 |-> company2,
                                     result |-> _score_industry_similarity(company1, company2)])
    /\ pc' = IF Len(calls') = MaxCalls THEN "done" ELSE "start"
    /\ Frame({"pc", "calls"})

SpecIndustry == InitIndustry /\ [][ScoreIndustrySimilarity]_vars

\* the rules of the industry comparison, from the least to the most specific
Rules == <<"missing", "none", "overlap", "prefix1", "prefix2", "code", "label">>

\* whether a rule's condition holds of a pair
RuleHolds(rule, company1, company2) ==
    IF IsNone(company1.industry) \/ IsNone(company2.industry) THEN rule = "missing"
    ELSE LET i1 == Val(company1.industry)
             i2 == Val(company2.industry)
             naics == Truthy(i1.naics_code) /\ Truthy(i2.naics_code)
         IN CASE rule = "missing" -> FALSE
              [] rule = "none" -> TRUE
              [] rule = "overlap" -> Range(i1.subcategories) \cap Range(i2.subcategories) # {}
              [] rule = "prefix1" -> naics /\ Val(i1.naics_code)[1] = Val(i2.naics_code)[1]
              [] rule = "prefix2" ->
                    naics /\ Prefix(Val(i1.naics_code), 2) = Prefix(Val(i2.naics_code), 2)
              [] rule = "code" ->
                    \/ naics /\ i1.naics_code = i2.naics_code
                    \/ Truthy(i1.sic_code) /\ Truthy(i2.sic_code) /\ i1.sic_code = i2.sic_code
              [] rule = "label" -> i1.primary = i2.primary

\* the position in Rules of the most specific rule that matches a recorded call
Specificity(call) ==
    CHOOSE r \in 1..Len(Rules) :
        /\ RuleHolds(Rules[r], call.company1, call.company2)
        /\ \A q \in (r + 1)..Len(Rules) : ~RuleHolds(Rules[q], call.company1, call.company2)

MatchedBy(call) == Rules[Specificity(call)]

\* C4 as stated: of any two pairs, the one matched by the more specific rule, in
\* the order label, code, 2-digit prefix, 1-digit prefix, subcategory overlap, no
\* match, missing industry, never scores lower.
C4_AsStated ==
    \A i \in 1..Len(calls), j \in 1..Len(calls) :
        Specificity(calls[i]) > Specificity(calls[j]) =>
            FGeq(calls[i].result, calls[j].result)

\* C4: the order holds of any two pairs except a 1-digit prefix match against a
\* subcategory overlap; an overlap scores above 0.5 and at most 0.8, so never
\* above a 2-digit prefix match and never below a pair without any match.
C4_MonotoneExceptOverlap ==
    \A i \in 1..Len(calls), j \in 1..Len(calls) :
        /\ (Specificity(calls[i]) > Specificity(calls[j])
            /\ ~(MatchedBy(calls[i]) = "prefix1" /\ MatchedBy(calls[j]) = "overlap"))
           => FGeq(calls[i].result, calls[j].result)
        /\ MatchedBy(calls[i]) = "overlap"
           => /\ FGeq(calls[i].result, Float["0.5"]) /\ calls[i].result # Float["0.5"]
              /\ FGeq(Float["0.8"], calls[i].result)

\* C4 witness: a 2-digit prefix match and a full subcategory overlap have been
\* scored, both 0.8.
C4_Witness ==
    /\ Len(calls) = 2
    /\ MatchedBy(calls[1]) = "prefix2" /\ MatchedBy(calls[2]) = "overlap"
    /\ calls[1].result = Float["0.8"] /\ calls[2].result = Float["0.8"]

----------------------------------------------------------------------------
(* similarity_scorer.py: the tax-saving indicators *)

\* the keyword lists of the four text indicators, each in the order of the source:
\*   hiring_strong_indicators: 'significant hiring', 'major expansion', 'doubled workforce', 'rapid growth in employees', 'aggressive hiring'
\*   hiring_moderate_indicators: 'hiring', 'expansion', 'growing team', 'adding staff', 'increasing workforce'
\*   equipment_strong_indicators: 'major investment', 'new facility', 'significant upgrade', 'automation investment', 'new manufacturing line', 'facility expansion'
\*   equipment_moderate_indicators: 'equipment purchase', 'upgrade', 'renovation', 'expansion', 'new equipment', 'technology investment'
\*   succession_strong_indicators: 'leadership transition', 'succession plan', 'ownership transfer', 'generational change', 'retirement planning', 'family business transition'
\*   succession_moderate_indicators: 'new leadership', 'management change', 'executive transition', 'restructuring', 'ownership changes'
\*   government_strong_indicators: 'major government contract', 'federal contract award', 'multi-year government project', 'significant public sector work', 'primary government contractor'
\*   government_moderate_indicators: 'government work', 'public sector', 'state contract', 'municipal project', 'government bid'
indicators ==
    [hiring_strong |->
        << <<"s", "i", "g", "n", "i", "f", "i", "c", "a", "n", "t", " ", "h", "i", "r", "i", "n", "g">>,
           <<"m", "a", "j", "o", "r", " ", "e", "x", "p", "a", "n", "s", "i", "o", "n">>,
           <<"d", "o", "u", "b", "l", "e", "d", " ", "w", "o", "r", "k", "f", "o", "r", "c", "e">>,
           <<"r", "a", "p", "i", "d", " ", "g", "r", "o", "w", "t", "h", " ", "i", "n", " ", "e", "m", "p", "l", "o", "y", "e", "e", "s">>,
           <<"a", "g", "g", "r", "e", "s", "s", "i", "v", "e", " ", "h", "i", "r", "i", "n", "g">> >>,
     hiring_moderate |->
        << <<"h", "i", "r", "i", "n", "g">>,
           <<"e", "x", "p", "a", "n", "s", "i", "o", "n">>,
           <<"g", "r", "o", "w", "i", "n", "g", " ", "t", "e", "a", "m">>,
           <<"a", "d", "d", "i", "n", "g", " ", "s", "t", "a", "f", "f">>,
           <<"i", "n", "c", "r", "e", "a", "s", "i", "n", "g", " ", "w", "o", "r", "k", "f", "o", "r", "c", "e">> >>,
     equipment_strong |->
        << <<"m", "a", "j", "o", "r", " ", "i", "n", "v", "e", "s", "t", "m", "e", "n", "t">>,
           <<"n", "e", "w", " ", "f", "a", "c", "i", "l", "i", "t", "y">>,
           <<"s", "i", "g", "n", "i", "f", "i", "c", "a", "n", "t", " ", "u", "p", "g", "r", "a", "d", "e">>,
           <<"a", "u", "t", "o", "m", "a", "t", "i", "o", "n", " ", "i", "n", "v", "e", "s", "t", "m", "e", "n", "t">>,
           <<"n", "e", "w", " ", "m", "a", "n", "u", "f", "a", "c", "t", "u", "r", "i", "n", "g", " ", "l", "i", "n", "e">>,
           <<"f", "a", "c", "i", "l", "i", "t", "y", " ", "e", "x", "p", "a", "n", "s", "i", "o", "n">> >>,
     equipment_moderate |->
        << <<"e", "q", "u", "i", "p", "m", "e", "n", "t", " ", "p", "u", "r", "c", "h", "a", "s", "e">>,
           <<"u", "p", "g", "r", "a", "d", "e">>,
           <<"r", "e", "n", "o", "v", "a", "t", "i", "o", "n">>,
           <<"e", "x", "p", "a", "n", "s", "i", "o", "n">>,
           <<"n", "e", "w", " ", "e", "q", "u", "i", "p", "m", "e", "n", "t">>,
           <<"t", "e", "c", "h", "n", "o", "l", "o", "g", "y", " ", "i", "n", "v", "e", "s", "t", "m", "e", "n", "t">> >>,
     succession_strong |->
        << <<"l", "e", "a", "d", "e", "r", "s", "h", "i", "p", " ", "t", "r", "a", "n", "s", "i", "t", "i", "o", "n">>,
           <<"s", "u", "c", "c", "e", "s", "s", "i", "o", "n", " ", "p", "l", "a", "n">>,
           <<"o", "w", "n", "e", "r", "s", "h", "i", "p", " ", "t", "r", "a", "n", "s", "f", "e", "r">>,
           <<"g", "e", "n", "e", "r", "a", "t", "i", "o", "n", "a", "l", " ", "c", "h", "a", "n", "g", "e">>,
           <<"r", "e", "t", "i", "r", "e", "m", "e", "n", "t", " ", "p", "l", "a", "n", "n", "i", "n", "g">>,
           <<"f", "a", "m", "i", "l", "y", " ", "b", "u", "s", "i", "n", "e", "s", "s", " ", "t", "r", "a", "n", "s", "i", "t", "i", "o", "n">> >>,
     succession_moderate |->
        << <<"n", "e", "w", " ", "l", "e", "a", "d", "e", "r", "s", "h", "i", "p">>,
           <<"m", "a", "n", "a", "g", "e", "m", "e", "n", "t", " ", "c", "h", "a", "n", "g", "e">>,
           <<"e", "x", "e", "c", "u", "t", "i", "v", "e", " ", "t", "r", "a", "n", "s", "i", "t", "i", "o", "n">>,
           <<"r", "e", "s", "t", "r", "u", "c", "t", "u", "r", "i", "n", "g">>,
           <<"o", "w", "n", "e", "r", "s", "h", "i", "p", " ", "c", "h", "a", "n", "g", "e", "s">> >>,
     government_strong |->
        << <<"m", "a", "j", "o", "r", " ", "g", "o", "v", "e", "r", "n", "m", "e", "n", "t", " ", "c", "o", "n", "t", "r", "a", "c", "t">>,
           <<"f", "e", "d", "e", "r", "a", "l", " ", "c", "o", "n", "t", "r", "a", "c", "t", " ", "a", "w", "a", "r", "d">>,
           <<"m", "u", "l", "t", "i", "-", "y", "e", "a", "r", " ", "g", "o", "v", "e", "r", "n", "m", "e", "n", "t", " ", "p", "r", "o", "j", "e", "c", "t">>,
           <<"s", "i", "g", "n", "i", "f", "i", "c", "a", "n", "t", " ", "p", "u", "b", "l", "i", "c", " ", "s", "e", "c", "t", "o", "r", " ", "w", "o", "r", "k">>,
           <<"p", "r", "i", "m", "a", "r", "y", " ", "g", "o", "v", "e", "r", "n", "m", "e", "n", "t", " ", "c", "o", "n", "t", "r", "a", "c", "t", "o", "r">> >>,
     government_moderate |->
        << <<"g", "o", "v", "e", "r", "n", "m", "e", "n", "t", " ", "w", "o", "r", "k">>,
           <<"p", "u", "b", "l", "i", "c", " ", "s", "e", "c", "t", "o", "r">>,
           <<"s", "t", "a", "t", "e", " ", "c", "o", "n", "t", "r", "a", "c", "t">>,
           <<"m", "u", "n", "i", "c", "i", "p", "a", "l", " ", "p", "r", "o", "j", "e", "c", "t">>,
           <<"g", "o", "v", "e", "r", "n", "m", "e", "n", "t", " ", "b", "i", "d">> >> ]

_score_growth_rate(c) ==
    IF IsNone(c.financials) \/ IsNone(Val(c.financials).growth_rate) THEN Float["0.3"]
    ELSE LET growth_rate == Val(Val(c.financials).growth_rate)
         IN IF growth_rate >= 15 THEN Float["1.0"]
            ELSE IF growth_rate >= 10 THEN Float["0.8"]
            ELSE IF growth_rate >= 5 THEN Float["0.5"]
            ELSE Float["0.2"]

\* the result of a keyword search in text.lower(): "strong", "moderate" or "none"
Indicator(text, strong_indicators, moderate_indicators) ==
    IF AnyIn(strong_indicators, Lower(text)) THEN "strong"
    ELSE IF AnyIn(moderate_indicators, Lower(text)) THEN "moderate"
    ELSE "none"

_score_hiring_expansion(c) ==
    IF IsNone(c.financials) THEN Float["0.3"]
    ELSE LET f == Val(c.financials)
             found == IF Truthy(f.payroll_trends)
                      THEN Indicator(Val(f.payroll_trends), indicators.hiring_strong,
                                     indicators.hiring_moderate)
                      ELSE "none"
         IN IF found = "strong" THEN Float["1.0"]
            ELSE IF found = "moderate" THEN Float["0.7"]
            ELSE IF ~IsNone(f.employee_count) /\ Val(f.employee_count) # 0
                    /\ Val(f.employee_count) > 50 THEN Float["0.5"]
            ELSE Float["0.2"]

_score_equipment_upgrades(c) ==
    IF IsNone(c.financials) \/ ~Truthy(Val(c.financials).capex_trends) THEN Float["0.3"]
    ELSE LET found == Indicator(Val(Val(c.financials).capex_trends),
                                indicators.equipment_strong, indicators.equipment_moderate)
         IN IF found = "strong" THEN Float["1.0"]
            ELSE IF found = "moderate" THEN Float["0.7"]
            ELSE Float["0.2"]

_score_succession_planning(c) ==
    IF IsNone(c.tax_indicators) \/ ~Truthy(Val(c.tax_indicators).succession_planning) THEN Float["0.2"]
    ELSE LET found == Indicator(Val(Val(c.tax_indicators).succession_planning),
                                indicators.succession_strong, indicators.succession_moderate)
         IN IF found = "strong" THEN Float["1.0"]
            ELSE IF found = "moderate" THEN Float["0.7"]
            ELSE Float["0.3"]

_score_government_contracts(c) ==
    IF IsNone(c.tax_indicators) \/ ~Truthy(Val(c.tax_indicators).government_contracts) THEN Float["0.2"]
    ELSE LET found == Indicator(Val(Val(c.tax_indicators).government_contracts),
                                indicators.government_strong, indicators.government_moderate)
         IN IF found = "strong" THEN Float["1.0"]
            ELSE IF found = "moderate" THEN Float["0.7"]
            ELSE Float["0.3"]

\* the dict scores of score_tax_saving_potential
TaxScores(c) ==
    [growth_rate |-> _score_growth_rate(c),
     hiring_expansion |-> _score_hiring_expansion(c),
     equipment_upgrades |-> _score_equipment_upgrades(c),
     succession_planning |-> _score_succession_planning(c),
     government_contracts |-> _score_government_contracts(c)]

\* the thresholds of score_tax_saving_potential
PotentialOf(weighted_score) ==
    IF FGeq(weighted_score, Float["0.7"]) THEN "HIGH"
    ELSE IF FGeq(weighted_score, Float["0.4"]) THEN "MEDIUM"
    ELSE "LOW"

score_tax_saving_potential(c) ==
    PotentialOf(WeightedSum(TaxScores(c), tax_potential_weights, TaxKeys))

----------------------------------------------------------------------------
(* score_tax_saving_potential(company) *)


\* growth rates run in steps of 5 up to 5 * MaxGrowthSteps
MaxGrowthSteps == 3

\* Company(id="company1", name="company1", financials=Financials(employee_count=e,
\*         growth_rate=g, payroll_trends=p, capex_trends=x),
\*         tax_indicators=TaxIndicators(succession_planning=s, government_contracts=v))
TaxCompany(g, e, p, x, s, v) ==
    [Company("company1", "company1") EXCEPT
        !.financials = Some([Financials EXCEPT !.growth_rate = g, !.employee_count = e,
                                               !.payroll_trends = p, !.capex_trends = x]),
        !.tax_indicators = Some([TaxIndicators EXCEPT !.succession_planning = s,
                                                      !.government_contracts = v])]

\* all growth rates and employee counts with plain or absent texts; every text
\* field absent or empty, without keyword, with a moderate and with a strong keyword,
\* with the highest or no growth rate and 50 employees; and the companies without
\* financials, without tax indicators, or with None for the texts
TaxCompanies ==
    {TaxCompany(g, e, p, x, s, v) :
        g \in {None} \cup {Some(5 * k) : k \in 0..MaxGrowthSteps},
        e \in {None, Some(0), Some(45), Some(50), Some(100)},
        p \in {None, Some(Str["Stable headcount"])},
        x \in {None, Some(Str["Routine maintenance"])},
        s \in {Some(Str[""]), Some(Str["Owner planning retirement"])},
        v \in {Some(Str[""]), Some(Str["No bids so far"]), Some(Str["Major government contract"])}}
    \cup
    {TaxCompany(g, Some(50), p, x, s, v) :
        g \in {None, Some(5 * MaxGrowthSteps)},
        p \in {None, Some(Str["Stable headcount"]), Some(Str["Hiring Engineers"]),
               Some(Str["Significant hiring planned"])},
        x \in {None, Some(Str["Routine maintenance"]), Some(Str["Equipment Upgrade"]),
               Some(Str["New facility opened"])},
        s \in {Some(Str[""]), Some(Str["Owner planning retirement"]),
               Some(Str["New leadership team"]), Some(Str["Succession plan in place"])},
        v \in {Some(Str[""]), Some(Str["No bids so far"]), Some(Str["State contract pending"]),
               Some(Str["Major government contract"])}}
    \cup
    {[TaxCompany(Some(5), Some(100), None, None, None, None) EXCEPT
         !.financials = IF nofin THEN None ELSE @,
         !.tax_indicators = IF notax THEN None ELSE @] :
        nofin \in BOOLEAN, notax \in BOOLEAN}

InitTax ==
    /\ FloatLiteralsOK
    /\ pc = "start"
    /\ \E c \in TaxCompanies : company = Some(c)
    /\ Idle({"company"})

ScoreTaxSavingPotential ==
    /\ pc = "start"
    /\ ~IsNone(company)
    /\ tax_scores' = Some(TaxScores(Val(company)))
    /\ tax_weighted' = Some(WeightedSum(Val(tax_scores'), tax_potential_weights, TaxKeys))
    /\ potential' = Some(PotentialOf(Val(tax_weighted')))
    /\ pc' = "done"
    /\ Frame({"pc", "tax_scores", "tax_weighted", "potential"})

SpecTax == InitTax /\ [][ScoreTaxSavingPotential]_vars

----------------------------------------------------------------------------
(* Properties of score_tax_saving_potential *)

\* an indicator score in tenths
Tenths(x) ==
    CASE x = Float["0.2"] -> 2 [] x = Float["0.3"] -> 3 [] x = Float["0.5"] -> 5
      [] x = Float["0.7"] -> 7 [] x = Float["0.8"] -> 8 [] x = Float["1.0"] -> 10

\* the weights in hundredths
WeightHundredths ==
    [growth_rate |-> 30, hiring_expansion |-> 20, equipment_upgrades |-> 20,
     succession_planning |-> 15, government_contracts |-> 15]

\* the weighted sum of the indicator scores as a number of thousandths
RECURSIVE ExactWeightedFrom(_, _)
ExactWeightedFrom(ts, k) ==
    IF k = 0 THEN 0
    ELSE Tenths(ts[TaxKeys[k]]) * WeightHundredths[TaxKeys[k]] + ExactWeightedFrom(ts, k - 1)
ExactWeighted(ts) == ExactWeightedFrom(ts, Len(TaxKeys))

\* C6 as stated: the potential returned is HIGH exactly when the weighted sum of
\* the five indicator scores is at least 0.7, MEDIUM exactly when it is at least
\* 0.4 and below 0.7, and LOW otherwise; every indicator score lies between 0.2
\* and 1.0 and so does the weighted sum.
C6_AsStated ==
    pc = "done" =>
        /\ \A k \in Range(TaxKeys) :
              FGeq(Val(tax_scores)[k], Float["0.2"]) /\ FGeq(Float["1.0"], Val(tax_scores)[k])
        /\ ExactWeighted(Val(tax_scores)) >= 200 /\ ExactWeighted(Val(tax_scores)) <= 1000
        /\ Val(potential) = "HIGH" <=> ExactWeighted(Val(tax_scores)) >= 700
        /\ Val(potential) = "MEDIUM" <=>
              (ExactWeighted(Val(tax_scores)) >= 400 /\ ExactWeighted(Val(tax_scores)) < 700)
        /\ Val(potential) = "LOW" <=> ExactWeighted(Val(tax_scores)) < 400

\* the company's financials and tax indicators, as far as the scorer reads them
HasProfile(c, g, e, p, x, s, v) ==
    /\ ~IsNone(c.financials) /\ ~IsNone(c.tax_indicators)
    /\ Val(c.financials).growth_rate = g /\ Val(c.financials).employee_count = e
    /\ Val(c.financials).payroll_trends = p /\ Val(c.financials).capex_trends = x
    /\ Val(c.tax_indicators).succession_planning = s
    /\ Val(c.tax_indicators).government_contracts = v

\* C7 as stated: the three fixture profiles are classified HIGH (growth 15, 50
\* employees, 'Owner planning retirement', 'Major government contract'), MEDIUM
\* (growth 10, 45 employees, empty texts) and LOW (growth 5, 100 employees, empty
\* texts).
C7_AsStated ==
    pc = "done" =>
        /\ HasProfile(Val(company), Some(15), Some(50), None, None,
                      Some(Str["Owner planning retirement"]), Some(Str["Major government contract"]))
           => Val(potential) = "HIGH"
        /\ HasProfile(Val(company), Some(10), Some(45), None, None,
                      Some(Str[""]), Some(Str[""]))
           => Val(potential) = "MEDIUM"
        /\ HasProfile(Val(company), Some(5), Some(100), None, None,
                      Some(Str[""]), Some(Str[""]))
           => Val(potential) = "LOW"

\* C6 witness: growth rate 5, 100 employees and texts without keyword give the
\* indicator scores 0.5, 0.5, 0.3, 0.3, 0.3, of weighted sum 0.40; LOW is returned.
C6_Witness ==
    /\ pc = "done"
    /\ HasProfile(Val(company), Some(5), Some(100), None, None,
                  Some(Str["Owner planning retirement"]), Some(Str["No bids so far"]))
    /\ ExactWeighted(Val(tax_scores)) = 400
    /\ Val(potential) = "LOW"

\* C7 witness: the first fixture profile has been scored, and MEDIUM is returned.
C7_Witness ==
    /\ pc = "done"
    /\ HasProfile(Val(company), Some(15), Some(50), None, None,
                  Some(Str["Owner planning retirement"]), Some(Str["Major government contract"]))
    /\ Val(potential) = "MEDIUM"

----------------------------------------------------------------------------
(* similarity_scorer.py: the ranking functions *)

\* a variant that orders LOW first
potential_order_low_first == [HIGH |-> 1, MEDIUM |-> 2, LOW |-> 3]

\* potential_order of rank_companies_by_tax_potential
potential_order == [HIGH |-> 3, MEDIUM |-> 2, LOW |-> 1]

\* key(a) >= key(b) for two (company, value) tuples: the key is the score
\* (lambda x: x[1]) or the order of the potential (lambda x: potential_order[x[1]])
KeyGeq(kind, a, b) ==
    IF kind = "score" THEN FGeq(a[2], b[2])
    ELSE potential_order[a[2]] >= potential_order[b[2]]

\* a variant that puts an item before the items of equal key
InsertBeforeEqual(kind, xs, item) ==
    LET k == Cardinality({i \in 1..Len(xs) : ~KeyGeq(kind, item, xs[i])})
    IN SubSeq(xs, 1, k) \o <<item>> \o SubSeq(xs, k + 1, Len(xs))

\* item put into xs, which is in non-increasing key order, behind every item
\* whose key is at least its own
InsertDescending(kind, xs, item) ==
    LET k == Cardinality({i \in 1..Len(xs) : KeyGeq(kind, xs[i], item)})
    IN SubSeq(xs, 1, k) \o <<item>> \o SubSeq(xs, k + 1, Len(xs))

\* xs.sort(key=..., reverse=True): the stable sort in non-increasing key order.
\* st = <<items taken, sorted so far>>
RECURSIVE SortDescendingFrom(_, _, _)
SortDescendingFrom(kind, xs, st) ==
    IF st[1] = Len(xs) THEN st[2]
    ELSE SortDescendingFrom(kind, xs,
            <<st[1] + 1, InsertDescending(kind, st[2], xs[st[1] + 1])>>)
SortDescending(kind, xs) == SortDescendingFrom(kind, xs, <<0, <<>>>>)

\* xs[:n]
Slice(xs, n) ==
    IF n >= 0 THEN SubSeq(xs, 1, Min(n, Len(xs)))
    ELSE SubSeq(xs, 1, Max(0, Len(xs) + n))

\* the loop of rank_companies_by_similarity. st = <<candidates taken, scored_companies>>
RECURSIVE ScoredBySimilarityFrom(_, _, _)
ScoredBySimilarityFrom(ref, cands, st) ==
    IF st[1] = Len(cands) THEN st[2]
    ELSE LET candidate == cands[st[1] + 1]
         IN ScoredBySimilarityFrom(ref, cands,
                <<st[1] + 1,
                  IF candidate.id # ref.id
                  THEN Append(st[2], <<candidate, score_company_similarity(ref, candidate)>>)
                  ELSE st[2]>>)

rank_companies_by_similarity(ref, cands, n) ==
    Slice(SortDescending("score", ScoredBySimilarityFrom(ref, cands, <<0, <<>>>>)), n)

\* the loop of rank_companies_by_tax_potential. st = <<companies taken, scored_companies>>
RECURSIVE ScoredByPotentialFrom(_, _)
ScoredByPotentialFrom(cs, st) ==
    IF st[1] = Len(cs) THEN st[2]
    ELSE ScoredByPotentialFrom(cs,
            <<st[1] + 1,
              Append(st[2], <<cs[st[1] + 1], score_tax_saving_potential(cs[st[1] + 1])>>)>>)

rank_companies_by_tax_potential(cs) ==
    SortDescending("potential", ScoredByPotentialFrom(cs, <<0, <<>>>>))

----------------------------------------------------------------------------
(* rank_companies_by_similarity(reference, candidates, top_n) *)

MaxCandidates == 3
MaxTopN == 3

\* all sequences over pool of length at most n
RECURSIVE SeqsUpTo(_, _)
SeqsUpTo(pool, n) ==
    IF n = 0 THEN {<<>>}
    ELSE LET shorter == SeqsUpTo(pool, n - 1)
         IN shorter \cup {Append(xs, c) : xs \in {ys \in shorter : Len(ys) = n - 1}, c \in pool}

ConstructionProfile ==
    [BaseProfile EXCEPT
        !.industry = Some(Industry(Str["Construction"], Some(Str["236"]), Some(Str["1500"]), <<Str["Commercial"]>>))]

\* the reference itself, a different record with the reference's id, a twin of
\* the reference, two companies that tie, and one in between
SimilarityPool ==
    { MakeCompany("company1", BaseProfile),
      MakeCompany("company1", ConstructionProfile),
      MakeCompany("company2", BaseProfile),
      MakeCompany("company3", ConstructionProfile),
      MakeCompany("company4", ConstructionProfile),
      MakeCompany("company5", [BaseProfile EXCEPT !.legal_structure = Some("C_CORP")]) }

InitRankSim ==
    /\ FloatLiteralsOK
    /\ pc = "start"
    /\ reference = Some(MakeCompany("company1", BaseProfile))
    /\ candidates \in SeqsUpTo(SimilarityPool, MaxCandidates)
    /\ top_n \in -1..MaxTopN
    /\ Idle({"reference", "candidates", "top_n"})

RankCompaniesBySimilarity ==
    /\ pc = "start"
    /\ ~IsNone(reference)
    /\ ranked' = Some(rank_companies_by_similarity(Val(reference), candidates, top_n))
    /\ pc' = "done"
    /\ Frame({"pc", "ranked"})

SpecRankSim == InitRankSim /\ [][RankCompaniesBySimilarity]_vars

----------------------------------------------------------------------------
(* rank_companies_by_tax_potential(companies) *)

MaxCompanies == 3

\* two HIGH, two MEDIUM and one LOW company
PotentialPool ==
    { [TaxCompany(Some(15), Some(100), Some(Str["Significant hiring planned"]), None,
                  Some(Str["Succession plan in place"]), Some(Str["Major government contract"])) EXCEPT !.id = "company1"],
      [TaxCompany(Some(10), Some(45), None, None, Some(Str[""]), Some(Str[""]))
          EXCEPT !.id = "company2"],
      [TaxCompany(Some(5), Some(100), None, None, Some(Str[""]), Some(Str[""]))
          EXCEPT !.id = "company3"],
      [TaxCompany(Some(15), Some(100), Some(Str["Significant hiring planned"]), None,
                  Some(Str["Succession plan in place"]), Some(Str["Major government contract"])) EXCEPT !.id = "company4"],
      [TaxCompany(Some(15), Some(50), None, None, Some(Str["Owner planning retirement"]),
                  Some(Str["Major government contract"])) EXCEPT !.id = "company5"] }

InitRankTax ==
    /\ FloatLiteralsOK
    /\ pc = "start"
    /\ companies \in SeqsUpTo(PotentialPool, MaxCompanies)
    /\ Idle({"companies"})

RankCompaniesByTaxPotential ==
    /\ pc = "start"
    /\ ranked' = Some(rank_companies_by_tax_potential(companies))
    /\ pc' = "done"
    /\ Frame({"pc", "ranked"})

SpecRankTax == InitRankTax /\ [][RankCompaniesByTaxPotential]_vars

----------------------------------------------------------------------------
(* Properties of the ranking functions *)

\* the ways to match the entries of a ranked list with distinct positions of
\* the input list that hold the same company
Positions(r, input) ==
    {pos \in [1..Len(r) -> 1..Len(input)] :
        /\ \A i \in 1..Len(r) : input[pos[i]] = r[i][1]
        /\ \A i \in 1..Len(r), j \in 1..Len(r) : i # j => pos[i] # pos[j]}

\* C8: the list returned holds no candidate with the reference's id, is in
\* non-increasing score order, keeps candidates of equal score in input order, and
\* for top_n >= 0 has min(top_n, number of candidates with another id) entries.
C8_RankBySimilarity ==
    pc = "done" =>
        LET r == Val(ranked)
        IN /\ \A i \in 1..Len(r) : r[i][1].id # Val(reference).id
           /\ \A i \in 1..Len(r), j \in 1..Len(r) : i < j => FGeq(r[i][2], r[j][2])
           /\ \E pos \in Positions(r, candidates) :
                 \A i \in 1..Len(r), j \in 1..Len(r) :
                    (i < j /\ r[i][2] = r[j][2]) => pos[i] < pos[j]
           /\ top_n >= 0 =>
                 Len(r) = Min(top_n, Cardinality({i \in 1..Len(candidates) :
                                                     candidates[i].id # Val(reference).id}))

\* C8 witness: of three candidates one has the reference's id and the other two
\* tie; with top_n = 2 both are returned, in input order.
C8_Witness ==
    /\ pc = "done" /\ top_n = 2 /\ Len(candidates) = 3
    /\ \E i \in 1..3 : candidates[i].id = Val(reference).id
    /\ Len(Val(ranked)) = 2
    /\ Val(ranked)[1][2] = Val(ranked)[2][2]
    /\ Val(ranked)[1][1].id = "company4" /\ Val(ranked)[2][1].id = "company3"

PotentialRank(p) == CASE p = "HIGH" -> 3 [] p = "MEDIUM" -> 2 [] p = "LOW" -> 1

\* C9: the list returned is a permutation of the input in which HIGH precedes
\* MEDIUM and MEDIUM precedes LOW, and companies of the same potential keep their
\* input order.
C9_RankByTaxPotential ==
    pc = "done" =>
        LET r == Val(ranked)
        IN /\ Len(r) = Len(companies)
           /\ \A i \in 1..Len(r), j \in 1..Len(r) :
                 i < j => PotentialRank(r[i][2]) >= PotentialRank(r[j][2])
           /\ \E pos \in Positions(r, companies) :
                 \A i \in 1..Len(r), j \in 1..Len(r) :
                    (i < j /\ r[i][2] = r[j][2]) => pos[i] < pos[j]

\* C9 witness: a LOW, a HIGH and a MEDIUM company, in this order, have been
\* ranked HIGH, MEDIUM, LOW.
C9_Witness ==
    /\ pc = "done" /\ Len(companies) = 3
    /\ companies[1].id = "company3" /\ companies[2].id = "company4"
    /\ companies[3].id = "company5"
    /\ Val(ranked) = <<<<companies[2], "HIGH">>, <<companies[3], "MEDIUM">>,
                       <<companies[1], "LOW">>>>

----------------------------------------------------------------------------
(* models.py: Route; logistics_optimizer.py: LogisticsOptimizer *)


\* CompanyReference(company_id=..., name=..., address=..., priority=priority)
CompanyReference(company_id, name, address, priority) ==
    [company_id |-> company_id, name |-> name, address |-> address, priority |-> priority]

\* Route(day=day): no companies, 0.0 distance and time, empty order
Route(day) ==
    [day |-> day, companies |-> <<>>, total_distance |-> BigZero,
     estimated_travel_time |-> BigZero, optimized_order |-> <<>>]

\* f"{street}, {city}, {state} {zip}"
AddressStr(a) ==
    a.street \o <<",", " ">> \o a.city \o <<",", " ">> \o a.state \o <<" ">> \o a.zip

\* list(range(n))
RECURSIVE RangeList(_)
RangeList(n) == IF n = 0 THEN <<>> ELSE Append(RangeList(n - 1), n - 1)

\* a variant that also takes a company without an address, with an empty address
add_company_unconditional(r, c, priority) ==
    LET refs == Append(r.companies,
                       CompanyReference(c.id, c.name,
                          IF IsNone(c.address) THEN Str[""] ELSE AddressStr(Val(c.address)),
                          priority))
    IN [r EXCEPT !.companies = refs, !.optimized_order = RangeList(Len(refs))]

\* a variant that appends the reference and keeps the order computed before
add_company_keeping_order(r, c, priority) ==
    IF IsNone(c.address) THEN r
    ELSE [r EXCEPT !.companies = Append(r.companies,
                      CompanyReference(c.id, c.name, AddressStr(Val(c.address)), priority))]

\* Route.add_company(company, priority): the route afterwards
add_company(r, c, priority) ==
    IF IsNone(c.address) THEN r
    ELSE LET refs == Append(r.companies,
                            CompanyReference(c.id, c.name, AddressStr(Val(c.address)), priority))
         IN [r EXCEPT !.companies = refs, !.optimized_order = RangeList(Len(refs))]

\* for company in companies: route.add_company(company).  st = <<companies taken, route>>
RECURSIVE AddCompaniesFrom(_, _)
AddCompaniesFrom(cs, st) ==
    IF st[1] = Len(cs) THEN st[2]
    ELSE AddCompaniesFrom(cs, <<st[1] + 1, add_company(st[2], cs[st[1] + 1], 0)>>)

\* the placeholder distance, 10.0 miles
_calculate_distance(address1, address2) == FInt(10)

\* distances[i][j] of the source is distances[i + 1][j + 1] here
_calculate_distance_matrix(refs, start) ==
    LET addresses == <<start>> \o [k \in 1..Len(refs) |-> refs[k].address]
        n == Len(addresses)
    IN [i \in 1..n |-> [j \in 1..n |->
            IF i = j THEN BigZero
            ELSE _calculate_distance(addresses[Min(i, j)], addresses[Max(i, j)])]]

\* a variant that takes the highest index of the closest locations
ClosestLast(distances, current, unvisited) ==
    CHOOSE x \in unvisited :
        \A y \in unvisited :
            /\ FGeq(distances[current + 1][y + 1], distances[current + 1][x + 1])
            /\ distances[current + 1][x + 1] = distances[current + 1][y + 1] => x >= y

\* min(unvisited, key=lambda x: distances[current][x]): the set is iterated in
\* increasing order, so of the closest locations the lowest index is taken
Closest(distances, current, unvisited) ==
    CHOOSE x \in unvisited :
        \A y \in unvisited :
            /\ FGeq(distances[current + 1][y + 1], distances[current + 1][x + 1])
            /\ distances[current + 1][x + 1] = distances[current + 1][y + 1] => x <= y

\* the while loop of _solve_tsp_greedy.  st = <<current, unvisited, tour>>
RECURSIVE GreedyTourFrom(_, _)
GreedyTourFrom(distances, st) ==
    IF st[2] = {} THEN st[3]
    ELSE LET closest == Closest(distances, st[1], st[2])
         IN GreedyTourFrom(distances, <<closest, st[2] \ {closest}, Append(st[3], closest)>>)

\* a variant that does not return to the starting point
_solve_tsp_greedy_one_way(distances) ==
    GreedyTourFrom(distances, <<0, 1..(Len(distances) - 1), <<0>>>>)

_solve_tsp_greedy(distances) ==
    Append(GreedyTourFrom(distances, <<0, 1..(Len(distances) - 1), <<0>>>>), 0)

\* a variant that counts the first leg of the tour only
TotalDistanceFirstLeg(distances, order, st) ==
    IF Len(order) < 2 THEN st[2]
    ELSE FAdd(st[2], distances[order[1] + 1][order[2] + 1])

\* the loop over the legs of the tour.  st = <<legs added, total_distance>>
RECURSIVE TotalDistanceFrom(_, _, _)
TotalDistanceFrom(distances, order, st) ==
    IF st[1] >= Len(order) - 1 THEN st[2]
    ELSE TotalDistanceFrom(distances, order,
            <<st[1] + 1, FAdd(st[2], distances[order[st[1] + 1] + 1][order[st[1] + 2] + 1])>>)

optimize_route(cs, start) ==
    IF cs = <<>> THEN Route(Str[""])
    ELSE LET day == IF ~IsNone(cs[1].location) /\ Truthy(Val(cs[1].location).region)
                    THEN Val(Val(cs[1].location).region)
                    ELSE Str["Monday"]
             r == AddCompaniesFrom(cs, <<0, Route(day)>>)
             distances == _calculate_distance_matrix(r.companies, start)
             optimized_order == _solve_tsp_greedy(distances)
             total_distance == TotalDistanceFrom(distances, optimized_order, <<0, BigZero>>)
         IN IF r.companies = <<>> THEN r
            ELSE [r EXCEPT !.optimized_order = optimized_order,
                           !.total_distance = total_distance,
                           !.estimated_travel_time = FDiv(total_distance, FInt(30))]

----------------------------------------------------------------------------
(* optimize_route(companies, start_location) *)

MaxRouteCompanies == 3

\* three companies with an address, one of them with a region, and one without
RoutePool ==
    { [Company("company1", "company1") EXCEPT
          !.address = Some(Address(Str["123 Main St"], Str["Milwaukee"], Str["WI"], Str["53202"]))],
      [Company("company2", "company2") EXCEPT
          !.address = Some(Address(Str["456 Oak St"], Str["Madison"], Str["WI"], Str["53703"])),
          !.location = Some(GeoLocation(4307, -8940, Some(Str["Tuesday"])))],
      [Company("company3", "company3") EXCEPT
          !.address = Some(Address(Str["123 Main St"], Str["Chicago"], Str["IL"], Str["60601"])),
          !.location = Some(GeoLocation(4188, -8763, None))],
      [Company("company4", "company4") EXCEPT
          !.location = Some(GeoLocation(4304, -8791, Some(Str[""])))] }

InitRoute ==
    /\ FloatLiteralsOK
    /\ pc = "start"
    /\ companies \in SeqsUpTo(RoutePool, MaxRouteCompanies)
    /\ start_location \in {Some(Str["1 Office Way"]), Some(Str[""])}
    /\ Idle({"companies", "start_location"})

OptimizeRoute ==
    /\ pc = "start"
    /\ ~IsNone(start_location)
    /\ route' = Some(optimize_route(companies, Val(start_location)))
    /\ pc' = "done"
    /\ Frame({"pc", "route"})

SpecRoute == InitRoute /\ [][OptimizeRoute]_vars

----------------------------------------------------------------------------
(* _solve_tsp_greedy(distances), one step for each iteration of its loop *)

MaxLocations == 4

\* the distances between two different locations
Miles == {BigZero, FInt(5), FInt(10)}

\* the matrices _calculate_distance_matrix can build for n locations once
\* _calculate_distance measures: symmetric, 0 on the diagonal
DistanceMatrices(n) ==
    LET legs == {p \in (1..n) \X (1..n) : p[1] < p[2]}
    IN {[i \in 1..n |-> [j \in 1..n |->
            IF i = j THEN BigZero ELSE leg[<<Min(i, j), Max(i, j)>>]]] : leg \in [legs -> Miles]}

InitTsp ==
    /\ FloatLiteralsOK
    /\ pc = "start"
    /\ \E n \in 1..MaxLocations : \E d \in DistanceMatrices(n) :
          tsp = [distances |-> d, current |-> 0, unvisited |-> {}, tour |-> <<>>]
    /\ Idle({"tsp"})

\* n = len(distances); current = 0; unvisited = set(range(1, n)); tour = [current]
StartTour ==
    /\ pc = "start"
    /\ tsp' = [tsp EXCEPT !.current = 0,
                          !.unvisited = 1..(Len(tsp.distances) - 1),
                          !.tour = <<0>>]
    /\ pc' = "loop"
    /\ Frame({"pc", "tsp"})

\* one iteration of "while unvisited"
VisitClosest ==
    /\ pc = "loop"
    /\ tsp.unvisited # {}
    /\ LET closest == Closest(tsp.distances, tsp.current, tsp.unvisited)
       IN tsp' = [tsp EXCEPT !.tour = Append(@, closest),
                             !.unvisited = @ \ {closest},
                             !.current = closest]
    /\ Frame({"tsp"})

\* a variant that returns the tour as the loop left it
ReturnWithoutClosing ==
    /\ pc = "loop"
    /\ tsp.unvisited = {}
    /\ pc' = "done"
    /\ Frame({"pc"})

\* the loop is left; tour.append(0); return tour
ReturnToStart ==
    /\ pc = "loop"
    /\ tsp.unvisited = {}
    /\ tsp' = [tsp EXCEPT !.tour = Append(@, 0)]
    /\ pc' = "done"
    /\ Frame({"pc", "tsp"})

SpecTsp == InitTsp /\ [][StartTour \/ VisitClosest \/ ReturnToStart]_vars

\* the call is the only thread of control: a step that can be taken is taken
FairSpecTsp == SpecTsp /\ WF_vars(StartTour \/ VisitClosest \/ ReturnToStart)

C12_GreedyStep ==
    [][(pc = "loop" /\ tsp.unvisited # {}) =>
          LET row == tsp.distances[tsp.current + 1]
              nearest == {x \in tsp.unvisited :
                             \A y \in tsp.unvisited : FGeq(row[y + 1], row[x + 1])}
              next == tsp'.tour[Len(tsp'.tour)]
          IN /\ tsp'.tour = Append(tsp.tour, next)
             /\ next \in nearest
             /\ \A x \in nearest : next <= x
             /\ tsp'.current = next
             /\ tsp'.unvisited = tsp.unvisited \ {next}
             /\ tsp'.distances = tsp.distances]_vars

\* C12 witness: from the start, locations 2 and 3 were equally close and closer
\* than location 1, and location 2 was visited.
C12_Witness ==
    /\ pc = "loop"
    /\ Len(tsp.distances) = 4
    /\ tsp.tour = <<0, 2>>
    /\ tsp.distances[1][3] = tsp.distances[1][4]
    /\ tsp.distances[1][2] # tsp.distances[1][3]

----------------------------------------------------------------------------
(* the Route optimize_route returns *)

\* C13: the total_distance of a returned Route is the sum, leg after leg, of the
\* entries of the distance matrix between consecutive elements of
\* optimized_order; that matrix is symmetric with a zero diagonal; and
\* estimated_travel_time is total_distance / 30.
C13_DistanceAndTime ==
    pc = "done" =>
        LET r == Val(route)
            order == r.optimized_order
            d == _calculate_distance_matrix(r.companies, Val(start_location))
            last == Max(Len(order), 1)
            sum[i \in 1..last] ==
                IF i = 1 THEN BigZero
                ELSE FAdd(sum[i - 1], d[order[i - 1] + 1][order[i] + 1])
        IN /\ r.total_distance = sum[last]
           /\ Len(d) = Len(r.companies) + 1
           /\ \A i \in 1..Len(d) : Len(d[i]) = Len(d) /\ d[i][i] = BigZero
           /\ \A i, j \in 1..Len(d) : d[i][j] = d[j][i]
           /\ r.estimated_travel_time =
                 IF r.total_distance = BigZero THEN BigZero
                 ELSE FDiv(r.total_distance, FInt(30))

\* C13 witness: three companies were routed over four legs of 10 miles, 40
\* miles in all, which take between one and two hours.
C13_Witness ==
    /\ pc = "done"
    /\ Len(Val(route).companies) = 3
    /\ Val(route).total_distance = FInt(40)
    /\ FGeq(Val(route).estimated_travel_time, FInt(1))
    /\ FGeq(FInt(2), Val(route).estimated_travel_time)
    /\ Val(route).estimated_travel_time # FInt(1)

\* C14: for an empty list, and for a list in which no company has an address,
\* optimize_route returns a Route without companies, with total_distance 0 and
\* estimated_travel_time 0; and the companies of a returned Route are, in order,
\* the companies of the list that have an address.
C14_EmptyRoute ==
    pc = "done" =>
        LET r == Val(route)
            addressed == {i \in 1..Len(companies) : ~IsNone(companies[i].address)}
        IN /\ addressed = {} =>
                 /\ r.companies = <<>>
                 /\ r.total_distance = BigZero
                 /\ r.estimated_travel_time = BigZero
           /\ Len(r.companies) = Cardinality(addressed)
           /\ \A k \in 1..Len(r.companies) :
                 \E i \in addressed :
                    /\ Cardinality({j \in addressed : j <= i}) = k
                    /\ r.companies[k].company_id = companies[i].id

\* C14 witness: a list of two companies of which neither has an address was
\* given, and a Route without companies was returned.
C14_Witness ==
    /\ pc = "done"
    /\ Len(companies) = 2
    /\ \A i \in 1..2 : IsNone(companies[i].address)
    /\ ~IsNone(route)
    /\ Val(route).companies = <<>>

----------------------------------------------------------------------------
(* Route.add_company(company, priority) on the Route optimize_route returned *)

MaxAdded == 2

\* route.add_company(company, priority), for a company and a priority of the
\* caller's choice; calls records the ids of the companies passed so far
AddCompany ==
    /\ pc \in {"done", "added"}
    /\ Len(calls) < MaxAdded
    /\ \E c \in RoutePool, priority \in 0..1 :
          /\ company' = Some(c)
          /\ route' = Some(add_company(Val(route), c, priority))
          /\ calls' = Append(calls, c.id)
    /\ pc' = "added"
    /\ Frame({"pc", "company", "route", "calls"})

SpecAddCompany == InitRoute /\ [][OptimizeRoute \/ AddCompany]_vars

\* C15: add_company with a company that has an address appends its reference
\* and replaces optimized_order, which then differs from the order held before
\* (the tour of an earlier optimization included) and lists the positions of
\* the companies; with a company without an address it leaves the Route as it
\* was: companies, optimized_order, total_distance and estimated_travel_time.
C15_AddCompanyFrame ==
    [][pc' = "added" =>
          LET before == Val(route)
              after == Val(route')
          IN IF IsNone(Val(company').address)
             THEN /\ after.companies = before.companies
                  /\ after.optimized_order = before.optimized_order
                  /\ after.total_distance = before.total_distance
                  /\ after.estimated_travel_time = before.estimated_travel_time
             ELSE /\ Len(after.companies) = Len(before.companies) + 1
                  /\ after.optimized_order # before.optimized_order
                  /\ Len(after.optimized_order) = Len(after.companies)
                  /\ \A i \in 1..Len(after.companies) : after.optimized_order[i] = i - 1]_vars

\* C15 witness: two companies were routed over a tour of 30 miles, then a
\* third was added, and the order is 0, 1, 2 instead of the tour 0, 1, 2, 0.
C15_Witness ==
    /\ pc = "added"
    /\ Len(calls) = 1
    /\ ~IsNone(Val(company).address)
    /\ Len(companies) = 2
    /\ Len(Val(route).companies) = 3
    /\ Val(route).total_distance = FInt(30)
    /\ Val(route).optimized_order = <<0, 1, 2>>

----------------------------------------------------------------------------
(* config.py: Config; logistics_optimizer.py: assign_companies_to_days *)

\* s.split(sep) for a separator of one character.
\* st = <<characters read, parts completed, part in progress>>
RECURSIVE SplitFrom(_, _, _)
SplitFrom(s, sep, st) ==
    IF st[1] = Len(s) THEN Append(st[2], st[3])
    ELSE IF s[st[1] + 1] = sep
         THEN SplitFrom(s, sep, <<st[1] + 1, Append(st[2], st[3]), <<>>>>)
         ELSE SplitFrom(s, sep, <<st[1] + 1, st[2], Append(st[3], s[st[1] + 1])>>)

\* the class attributes of Config that make the schedule, under the environment
\* environ: os.getenv(name, default) is environ[name] when the name is set
Config(environ) ==
    LET getenv(name, default) == IF name \in DOMAIN environ THEN environ[name] ELSE default
    IN [MONDAY_LOCATIONS |->
           SplitFrom(getenv("MONDAY_LOCATIONS", Str["Waukesha,West Milwaukee,Jackson,West Bend"]),
                     ",", <<0, <<>>, <<>>>>),
        TUESDAY_LOCATIONS |->
           SplitFrom(getenv("TUESDAY_LOCATIONS", Str["Kenosha,Racine"]), ",", <<0, <<>>, <<>>>>),
        WEDNESDAY_LOCATIONS |->
           SplitFrom(getenv("WEDNESDAY_LOCATIONS", Str["West Waukesha,Madison"]),
                     ",", <<0, <<>>, <<>>>>),
        THURSDAY_FRIDAY |-> getenv("THURSDAY_FRIDAY", Str["Follow-up"])]

\* Config.get_location_schedule(): the dict in the order of its keys; a value is
\* a list of regions or a str
get_location_schedule(environ) ==
    <<[day |-> "Monday", regions |-> [list |-> Config(environ).MONDAY_LOCATIONS]],
      [day |-> "Tuesday", regions |-> [list |-> Config(environ).TUESDAY_LOCATIONS]],
      [day |-> "Wednesday", regions |-> [list |-> Config(environ).WEDNESDAY_LOCATIONS]],
      [day |-> "Thursday", regions |-> [str |-> Config(environ).THURSDAY_FRIDAY]],
      [day |-> "Friday", regions |-> [str |-> Config(environ).THURSDAY_FRIDAY]]>>

\* a variant that matches a region contained in the city only
AssignedDayFromRegionInCity(company_city, schedule, k) ==
    IF \E i \in 1..Len(schedule) :
          /\ "list" \in DOMAIN schedule[i].regions
          /\ \E r \in 1..Len(schedule[i].regions.list) :
                Contains(company_city, Lower(schedule[i].regions.list[r]))
    THEN Some(schedule[CHOOSE i \in 1..Len(schedule) :
                 /\ "list" \in DOMAIN schedule[i].regions
                 /\ \E r \in 1..Len(schedule[i].regions.list) :
                       Contains(company_city, Lower(schedule[i].regions.list[r]))
                 /\ \A j \in 1..(i - 1) :
                       ~\E r \in 1..Len(schedule[j].regions.list) :
                           Contains(company_city, Lower(schedule[j].regions.list[r]))].day)
    ELSE None

\* the loop over the days of the schedule for one company, k days tried: the day
\* the company is appended to, None when assigned stays False
RECURSIVE AssignedDayFrom(_, _, _)
AssignedDayFrom(company_city, schedule, k) ==
    IF k = Len(schedule) THEN None
    ELSE LET regions == schedule[k + 1].regions
         IN IF /\ "list" \in DOMAIN regions
               /\ \E r \in 1..Len(regions.list) :
                     LET region_lower == Lower(regions.list[r])
                     IN \/ Contains(company_city, region_lower)
                        \/ Contains(region_lower, company_city)
            THEN Some(schedule[k + 1].day)
            ELSE AssignedDayFrom(company_city, schedule, k + 1)

\* the loop over the companies.  st = <<companies taken, days>>
RECURSIVE AssignFrom(_, _, _)
AssignFrom(cs, schedule, st) ==
    IF st[1] = Len(cs) THEN st[2]
    ELSE LET c == cs[st[1] + 1]
             company_city == Lower(Val(c.address).city)
             assigned == AssignedDayFrom(company_city, schedule, 0)
             day == IF IsNone(assigned) THEN "Thursday" ELSE Val(assigned)
         IN AssignFrom(cs, schedule,
               <<st[1] + 1,
                 IF IsNone(c.address) \/ Val(c.address).city = <<>> THEN st[2]
                 ELSE [st[2] EXCEPT ![day] = Append(@, c)]>>)

assign_companies_to_days(cs, schedule) ==
    AssignFrom(cs, schedule,
               <<0, [day \in {schedule[k].day : k \in 1..Len(schedule)} |-> <<>>]>>)

----------------------------------------------------------------------------
(* assign_companies_to_days(companies) *)

MaxAssigned == 2

\* companies in and around the scheduled regions, in a city of no region, with
\* an empty city and without an address
CityPool ==
    LET In(id, city) ==
            [Company(id, id) EXCEPT
                !.address = Some(Address(Str["123 Main St"], Str[city], Str["WI"], Str["53202"]))]
    IN {In("company1", "Milwaukee"), In("company2", "Waukesha"), In("company3", "Kenosha"),
        In("company4", "Madison"), In("company5", "West Waukesha"), In("company6", "Chicago"),
        In("company7", "RACINE"), In("company8", "West"), In("company9", "Follow-up"),
        In("company10", ""), Company("company11", "company11")}

InitAssign ==
    /\ FloatLiteralsOK
    /\ pc = "start"
    /\ \E environ \in {<<>>, [WEDNESDAY_LOCATIONS |-> Str["Milwaukee,Madison"]],
                       [TUESDAY_LOCATIONS |-> Str[""]]} :
          location_schedule = get_location_schedule(environ)
    /\ companies \in SeqsUpTo(CityPool, MaxAssigned)
    /\ Idle({"location_schedule", "companies"})

AssignCompaniesToDays ==
    /\ pc = "start"
    /\ days' = Some(assign_companies_to_days(companies, location_schedule))
    /\ pc' = "done"
    /\ Frame({"pc", "days"})

SpecAssign == InitAssign /\ [][AssignCompaniesToDays]_vars

\* the city of a company of the list, "" when it has no address
CityOf(c) == IF IsNone(c.address) THEN <<>> ELSE Val(c.address).city

\* C16: every company with a city is in the list of exactly one day, in input
\* order: the first day of the schedule with a configured region name that
\* contains the city or is contained in it, letter case ignored, and Thursday
\* when no day has one; a company without a city is in no list.  Under the
\* default schedule Milwaukee and Waukesha are on Monday, Kenosha is on Tuesday
\* and Madison on Wednesday.
C16_AssignedDays ==
    pc = "done" =>
        LET names(k) == IF "list" \in DOMAIN location_schedule[k].regions
                        THEN location_schedule[k].regions.list
                        ELSE <<location_schedule[k].regions.str>>
            matches(c, k) ==
                \E r \in 1..Len(names(k)) :
                   \/ Contains(Lower(CityOf(c)), Lower(names(k)[r]))
                   \/ Contains(Lower(names(k)[r]), Lower(CityOf(c)))
            first(c) == CHOOSE k \in 1..5 : matches(c, k) /\ \A j \in 1..(k - 1) : ~matches(c, j)
            day_of(c) == IF \E k \in 1..5 : matches(c, k)
                         THEN location_schedule[first(c)].day ELSE "Thursday"
            with_city == {i \in 1..Len(companies) : CityOf(companies[i]) # <<>>}
            expected == {<<i, day_of(companies[i])>> : i \in with_city}
            placed(d) == {i \in with_city : <<i, d>> \in expected}
            on(d, city) == \A i \in 1..Len(companies) :
                              CityOf(companies[i]) = Str[city] =>
                                 \E k \in 1..Len(Val(days)[d]) : Val(days)[d][k] = companies[i]
        IN /\ DOMAIN Val(days) = {"Monday", "Tuesday", "Wednesday", "Thursday", "Friday"}
           /\ \A d \in DOMAIN Val(days) :
                 LET here == placed(d)
                 IN /\ Len(Val(days)[d]) = Cardinality(here)
                    /\ \A k \in 1..Len(Val(days)[d]) :
                          \E i \in here :
                             /\ Cardinality({j \in here : j <= i}) = k
                             /\ Val(days)[d][k] = companies[i]
           /\ location_schedule = get_location_schedule(<<>>) =>
                 /\ on("Monday", "Milwaukee") /\ on("Monday", "Waukesha")
                 /\ on("Tuesday", "Kenosha") /\ on("Wednesday", "Madison")

\* C16 witness: under the default schedule West Waukesha went to Monday, the
\* first day with a matching region though Wednesday names it, and Chicago to
\* Thursday.
C16_Witness ==
    /\ pc = "done"
    /\ location_schedule = get_location_schedule(<<>>)
    /\ Len(companies) = 2
    /\ CityOf(companies[1]) = Str["West Waukesha"]
    /\ CityOf(companies[2]) = Str["Chicago"]
    /\ Val(days)["Monday"] = <<companies[1]>>
    /\ Val(days)["Thursday"] = <<companies[2]>>
    /\ Val(days)["Wednesday"] = <<>>

----------------------------------------------------------------------------
(* logistics_optimizer.py: cluster_companies_by_region *)

\* eps=0.05 degrees, in hundredths of a degree
eps == 5

\* DBSCAN(eps=0.05, min_samples=2).fit(coordinates).labels_ (scikit-learn, with
\* the Euclidean metric): two samples are neighbours when they are at most eps
\* apart; with min_samples=2 a sample that has a neighbour is a core sample, and
\* the clusters are the groups of samples linked by chains of neighbours,
\* numbered from 0 in the order of their first samples; a sample without a
\* neighbour is noise, labelled -1
DBSCAN_labels(coordinates) ==
    LET n == Len(coordinates)
        near(i, j) ==
            (coordinates[i][1] - coordinates[j][1]) * (coordinates[i][1] - coordinates[j][1])
            + (coordinates[i][2] - coordinates[j][2]) * (coordinates[i][2] - coordinates[j][2])
            <= eps * eps
        grown(group) == group \cup {j \in 1..n : \E i \in group : near(i, j)}
        RECURSIVE linked(_, _)
        linked(group, steps) == IF steps = 0 THEN group ELSE linked(grown(group), steps - 1)
        first(i) == CHOOSE j \in linked({i}, n) : \A k \in linked({i}, n) : j <= k
        core == {i \in 1..n : \E j \in 1..n : j # i /\ near(i, j)}
    IN [i \in 1..n |->
           IF i \notin core THEN -1
           ELSE Cardinality({first(j) : j \in {k \in core : first(k) < first(i)}})]

\* the loop over the labels.  st = <<labels taken, clusters>>
RECURSIVE ClustersFrom(_, _, _)
ClustersFrom(companies_with_location, labels, st) ==
    IF st[1] = Len(labels) THEN st[2]
    ELSE LET label == labels[st[1] + 1]
             region == IF label = -1 THEN "Other" ELSE "Cluster_" \o ToString(label)
             member == companies_with_location[st[1] + 1]
         IN ClustersFrom(companies_with_location, labels,
               <<st[1] + 1,
                 IF region \in DOMAIN st[2]
                 THEN [st[2] EXCEPT ![region] = Append(@, member)]
                 ELSE (region :> <<member>>) @@ st[2]>>)

\* the dict returned: a function from the names of the regions to their lists.
\* A location with latitude 0.0 or longitude 0.0 is falsy in the filter.
cluster_companies_by_region(cs) ==
    LET companies_with_location ==
            SelectSeq(cs, LAMBDA c : /\ ~IsNone(c.location)
                                     /\ Val(c.location).latitude # 0
                                     /\ Val(c.location).longitude # 0)
        coordinates == [i \in 1..Len(companies_with_location) |->
                           <<Val(companies_with_location[i].location).latitude,
                             Val(companies_with_location[i].location).longitude>>]
    IN IF companies_with_location = <<>> THEN <<>>
       ELSE ClustersFrom(companies_with_location, DBSCAN_labels(coordinates), <<0, <<>>>>)

----------------------------------------------------------------------------
(* cluster_companies_by_region(companies) *)

MaxClustered == 3

\* three companies in a row 0.03 degrees apart, one far from them, one on the
\* equator, one on the prime meridian, and one without a location
ClusterPool ==
    LET At(id, latitude, longitude) ==
            [Company(id, id) EXCEPT !.location = Some(GeoLocation(latitude, longitude, None))]
    IN {At("company1", 4300, -8800), At("company2", 4303, -8800), At("company3", 4306, -8800),
        At("company4", 4258, -8782), At("company5", 0, -8800), At("company6", 5148, 0),
        Company("company7", "company7")}

InitCluster ==
    /\ FloatLiteralsOK
    /\ pc = "start"
    /\ companies \in SeqsUpTo(ClusterPool, MaxClustered)
    /\ Idle({"companies"})

ClusterCompaniesByRegion ==
    /\ pc = "start"
    /\ clusters' = Some(cluster_companies_by_region(companies))
    /\ pc' = "done"
    /\ Frame({"pc", "clusters"})

SpecCluster == InitCluster /\ [][ClusterCompaniesByRegion]_vars

\* the names of the buckets that hold the company c
BucketsOf(c) ==
    {region \in DOMAIN Val(clusters) :
        \E k \in 1..Len(Val(clusters)[region]) : Val(clusters)[region][k] = c}

\* C17: for the empty list the mapping returned is empty; a company without
\* coordinates is in no bucket; and every company with coordinates is in
\* exactly one bucket, "Other" or a "Cluster_k".
C17_AsStated ==
    pc = "done" =>
        /\ companies = <<>> => DOMAIN Val(clusters) = {}
        /\ \A i \in 1..Len(companies) :
              IF IsNone(companies[i].location)
              THEN BucketsOf(companies[i]) = {}
              ELSE /\ Cardinality(BucketsOf(companies[i])) = 1
                   /\ BucketsOf(companies[i]) \subseteq
                         {"Other"} \cup {"Cluster_" \o ToString(k) : k \in 0..Len(companies)}

\* C17 witness: a company on the equator and a company 0.03 degrees from
\* another were clustered; the two neighbours make Cluster_0 and the company
\* on the equator is in no bucket.
C17_Witness ==
    /\ pc = "done"
    /\ Len(companies) = 3
    /\ companies[1].id = "company5" /\ companies[2].id = "company1"
    /\ companies[3].id = "company2"
    /\ ~IsNone(companies[1].location)
    /\ Val(companies[1].location).latitude = 0
    /\ BucketsOf(companies[1]) = {}
    /\ DOMAIN Val(clusters) = {"Cluster_0"}
    /\ Val(clusters)["Cluster_0"] = <<companies[2], companies[3]>>

----------------------------------------------------------------------------
(* logistics_optimizer.py: suggest_best_outreach_days *)

\* a variant of the table in which Friday is the best day
default_rates_friday_first ==
    [Monday |-> Float["0.7"], Tuesday |-> Float["0.5"], Wednesday |-> Float["0.8"],
     Thursday |-> Float["0.7"], Friday |-> Float["0.9"]]

default_rates ==
    [Monday |-> Float["0.7"], Tuesday |-> Float["0.9"], Wednesday |-> Float["0.8"],
     Thursday |-> Float["0.7"], Friday |-> Float["0.5"]]

\* historical_data is None or a dict, a function from days to rates; an empty
\* dict is falsy, as None is
suggest_best_outreach_days(cs, historical) ==
    IF ~IsNone(historical) /\ DOMAIN Val(historical) # {}
    THEN Val(historical)
    ELSE default_rates

----------------------------------------------------------------------------
(* suggest_best_outreach_days(companies, historical_data) *)

MaxOutreach == 2

InitOutreach ==
    /\ FloatLiteralsOK
    /\ pc = "start"
    /\ companies \in SeqsUpTo(CityPool, MaxOutreach)
    /\ historical_data \in
          {None, Some(<<>>), Some([Monday |-> Float["1.0"]]),
           Some([Monday |-> Float["0.2"], Friday |-> Float["0.9"]]),
           Some([Saturday |-> BigZero])}
    /\ Idle({"companies", "historical_data"})

SuggestBestOutreachDays ==
    /\ pc = "start"
    /\ best_days' = Some(suggest_best_outreach_days(companies, historical_data))
    /\ pc' = "done"
    /\ Frame({"pc", "best_days"})

SpecOutreach == InitOutreach /\ [][SuggestBestOutreachDays]_vars

\* the table Monday 0.7, Tuesday 0.9, Wednesday 0.8, Thursday 0.7, Friday 0.5,
\* of which Tuesday is the highest
IsFixedTable(rates) ==
    /\ DOMAIN rates = {"Monday", "Tuesday", "Wednesday", "Thursday", "Friday"}
    /\ rates["Monday"] = Dec(7, 10) /\ rates["Tuesday"] = Dec(9, 10)
    /\ rates["Wednesday"] = Dec(8, 10) /\ rates["Thursday"] = Dec(7, 10)
    /\ rates["Friday"] = Dec(5, 10)
    /\ \A d \in DOMAIN rates : FGeq(rates["Tuesday"], rates[d])

\* C18 as stated: the mapping the caller supplied is returned unchanged whenever
\* one is provided, and the fixed table otherwise.
C18_AsStated ==
    pc = "done" =>
        IF IsNone(historical_data)
        THEN IsFixedTable(Val(best_days))
        ELSE Val(best_days) = Val(historical_data)

\* C18: a non-empty historical_data mapping is returned unchanged; when none is
\* given, or an empty one, the fixed table is returned; either way the result
\* is determined by historical_data alone, whatever the list of companies.
C18_OutreachDays ==
    pc = "done" =>
        IF ~IsNone(historical_data) /\ DOMAIN Val(historical_data) # {}
        THEN Val(best_days) = Val(historical_data)
        ELSE IsFixedTable(Val(best_days))

\* C18 witness: an empty mapping was supplied with a list of two companies, and
\* the fixed table was returned.
C18_Witness ==
    /\ pc = "done"
    /\ Len(companies) = 2
    /\ historical_data = Some(<<>>)
    /\ IsFixedTable(Val(best_days))

----------------------------------------------------------------------------
(* data_normalizer.py *)

\* the dict normalize_industry returns for the str industry
normalize_industry(industry) ==
    LET industry_lower == Lower(industry)
        construction_keywords ==
            <<Str["construction"], Str["contractor"], Str["builder"], Str["engineering"],
              Str["architect"], Str["hvac"], Str["electrical"], Str["plumbing"],
              Str["concrete"], Str["framing"], Str["insulation"], Str["excavation"],
              Str["site prep"], Str["modular"], Str["prefab"], Str["building materials"],
              Str["steel"], Str["lumber"], Str["glass"], Str["precast"], Str["fasteners"],
              Str["coatings"]>>
        manufacturing_keywords ==
            <<Str["manufacturing"], Str["manufacturer"], Str["industrial"],
              Str["machinery"], Str["automation"], Str["oem"], Str["supplier"],
              Str["component"], Str["fabricator"], Str["fabrication"], Str["steel"],
              Str["plastic"], Str["composite"], Str["metal"], Str["stamping"],
              Str["machining"], Str["aerospace"], Str["automotive"], Str["equipment"],
              Str["robotics"], Str["cnc"], Str["injection molding"],
              Str["food processing"], Str["packaging"]>>
        trucking_keywords ==
            <<Str["trucking"], Str["logistics"], Str["freight"], Str["carrier"],
              Str["ltl"], Str["ftl"], Str["last-mile"], Str["delivery"],
              Str["refrigerated"], Str["transport"], Str["tanker"], Str["fleet"],
              Str["heavy equipment"], Str["warehousing"], Str["distribution"],
              Str["supply chain"], Str["fleet maintenance"], Str["intermodal"],
              Str["hazardous material"]>>
        found(category, subcategory) ==
            [primary |-> industry, category |-> category, subcategory |-> subcategory]
    IN IF industry = <<>>
       THEN [primary |-> Str[""], category |-> Str[""], subcategory |-> Str[""]]
       ELSE IF AnyIn(construction_keywords, industry_lower)
       THEN found(Str["Construction"],
               IF AnyIn(<<Str["general contractor"], Str["builder"]>>,
                        industry_lower)
               THEN Str["General Contractors"]
               ELSE IF AnyIn(<<Str["engineering"], Str["architect"]>>,
                             industry_lower)
               THEN Str["Engineering Firms"]
               ELSE IF AnyIn(<<Str["hvac"], Str["electrical"], Str["plumbing"],
                               Str["concrete"], Str["framing"], Str["insulation"]>>,
                             industry_lower)
               THEN Str["Specialty Trade Contractors"]
               ELSE IF AnyIn(<<Str["excavation"], Str["site prep"]>>,
                             industry_lower)
               THEN Str["Excavation & Site Prep"]
               ELSE IF AnyIn(<<Str["modular"], Str["prefab"]>>,
                             industry_lower)
               THEN Str["Modular & Prefab Construction"]
               ELSE IF AnyIn(<<Str["building materials"], Str["steel"], Str["lumber"],
                               Str["glass"], Str["precast"], Str["fasteners"],
                               Str["coatings"]>>,
                             industry_lower)
               THEN Str["Building Materials Suppliers"]
               ELSE Str["Other Construction"])
       ELSE IF AnyIn(manufacturing_keywords, industry_lower)
       THEN found(Str["Manufacturing"],
               IF AnyIn(<<Str["industrial machinery"], Str["automation"]>>,
                        industry_lower)
               THEN Str["Industrial Machinery & Automation"]
               ELSE IF AnyIn(<<Str["oem"], Str["supplier"], Str["component"]>>,
                             industry_lower)
               THEN Str["OEM Suppliers & Component Manufacturers"]
               ELSE IF AnyIn(<<Str["fabricator"], Str["fabrication"], Str["steel"],
                               Str["plastic"], Str["composite"], Str["metal"],
                               Str["stamping"], Str["machining"]>>,
                             industry_lower)
               THEN Str["Fabricators"]
               ELSE IF AnyIn(<<Str["aerospace"], Str["automotive"], Str["equipment"]>>,
                             industry_lower)
               THEN Str["Aerospace, Automotive & Heavy Equipment"]
               ELSE IF AnyIn(<<Str["robotics"], Str["cnc"], Str["automation"]>>,
                             industry_lower)
               THEN Str["Robotics & Automation"]
               ELSE IF AnyIn(<<Str["injection molding"], Str["composite"]>>,
                             industry_lower)
               THEN Str["Injection Molding & Composite Materials"]
               ELSE IF AnyIn(<<Str["food processing"], Str["packaging"]>>,
                             industry_lower)
               THEN Str["Food Processing & Packaging"]
               ELSE Str["Other Manufacturing"])
       ELSE IF AnyIn(trucking_keywords, industry_lower)
       THEN found(Str["Trucking & Logistics"],
               IF AnyIn(<<Str["freight"], Str["carrier"], Str["ltl"], Str["ftl"],
                          Str["last-mile"], Str["delivery"]>>,
                        industry_lower)
               THEN Str["Freight Carriers"]
               ELSE IF AnyIn(<<Str["refrigerated"], Str["tanker"]>>,
                             industry_lower)
               THEN Str["Refrigerated Transport & Tanker Fleets"]
               ELSE IF AnyIn(<<Str["heavy equipment"]>>,
                             industry_lower)
               THEN Str["Heavy Equipment Transporters"]
               ELSE IF AnyIn(<<Str["warehousing"], Str["distribution"]>>,
                             industry_lower)
               THEN Str["Warehousing & Distribution"]
               ELSE IF AnyIn(<<Str["logistics"], Str["supply chain"]>>,
                             industry_lower)
               THEN Str["Logistics Technology & Supply Chain"]
               ELSE IF AnyIn(<<Str["fleet maintenance"]>>,
                             industry_lower)
               THEN Str["Fleet Maintenance & Repair"]
               ELSE IF AnyIn(<<Str["intermodal"], Str["hazardous material"]>>,
                             industry_lower)
               THEN Str["Intermodal & Hazardous Material Haulers"]
               ELSE Str["Other Trucking & Logistics"])
       ELSE found(Str["Other"], Str["Other"])

\* is_owner_operated with the test of the executives before the test of
\* employee_count
is_owner_operated_by_title(company_data) ==
    \/ \E i \in 1..Len(company_data.executives) :
          AnyIn(<<Str["owner"], Str["founder"], Str["president"], Str["ceo"],
                  Str["principal"]>>,
                Lower(company_data.executives[i].role))
    \/ /\ ~(~IsNone(company_data.employee_count) /\ Val(company_data.employee_count) > 500)
       /\ \/ AnyIn(<<Str["llc"], Str["family"], Str["proprietor"]>>,
                   Lower(company_data.legal_structure))
          \/ AnyIn(<<Str["family"], Str["& sons"], Str["& son"], Str["brothers"],
                     Str["& co"]>>,
                   Lower(company_data.name))

\* company_data is the dict the caller built: employee_count an int or None,
\* executives a list of dicts with the key role, legal_structure and name a str
is_owner_operated(company_data) ==
    LET employee_count == company_data.employee_count
        executives == company_data.executives
        legal_structure == company_data.legal_structure
        company_name == Lower(company_data.name)
    IN IF ~IsNone(employee_count) /\ Val(employee_count) # 0 /\ Val(employee_count) > 500
       THEN FALSE
       ELSE IF \E i \in 1..Len(executives) :
                  AnyIn(<<Str["owner"], Str["founder"], Str["president"], Str["ceo"],
                          Str["principal"]>>,
                        Lower(executives[i].role))
       THEN TRUE
       ELSE IF AnyIn(<<Str["llc"], Str["family"], Str["proprietor"]>>, Lower(legal_structure))
       THEN TRUE
       ELSE AnyIn(<<Str["family"], Str["& sons"], Str["& son"], Str["brothers"],
                    Str["& co"]>>,
                  company_name)

\* company_data is the dict the caller built, each text a str or None; the
\* default of dict.get is for a missing key only, so that a text that is None
\* has no method lower. What the call does is a dict: it returns a value or
\* it raises an exception
is_in_growth_mode(company_data) ==
    LET growth_rate == company_data.growth_rate
        hiring_indicators ==
            <<Str["hiring"], Str["expanding"], Str["growth"], Str["new positions"],
              Str["job openings"], Str["career"], Str["join our team"]>>
        expansion_indicators ==
            <<Str["expansion"], Str["new facility"], Str["new location"], Str["growing"],
              Str["increased capacity"], Str["new equipment"], Str["investment"]>>
        description == company_data.description
        recent_dev == company_data.recent_developments
        financing == company_data.financing_activity
    IN IF ~IsNone(growth_rate) /\ Val(growth_rate) # 0 /\ Val(growth_rate) >= 5
       THEN [returns |-> TRUE]
       ELSE IF IsNone(description) THEN [raises |-> "AttributeError"]
       ELSE IF AnyIn(hiring_indicators, Lower(Val(description))) THEN [returns |-> TRUE]
       ELSE IF IsNone(recent_dev) THEN [raises |-> "AttributeError"]
       ELSE IF Val(recent_dev) # <<>> /\ AnyIn(expansion_indicators, Lower(Val(recent_dev)))
       THEN [returns |-> TRUE]
       ELSE IF IsNone(financing) THEN [raises |-> "AttributeError"]
       ELSE [returns |-> Val(financing) # <<>>
                         /\ AnyIn(<<Str["funding"], Str["investment"], Str["capital"],
                                    Str["loan"], Str["financing"]>>,
                                  Lower(Val(financing)))]

----------------------------------------------------------------------------
(* industry_discovery.py *)

\* IndustryDiscovery.industry_keywords, a dict from str to list
industry_keywords ==
    Str["construction"] :>
        <<Str["contractor"], Str["builder"], Str["construction"], Str["engineering"],
          Str["architect"], Str["hvac"], Str["electrical"], Str["plumbing"],
          Str["concrete"], Str["framing"], Str["insulation"], Str["excavation"],
          Str["site prep"], Str["modular"], Str["prefab"], Str["building materials"],
          Str["steel"], Str["lumber"], Str["glass"], Str["precast"], Str["fasteners"],
          Str["coatings"]>>
    @@ Str["manufacturing"] :>
        <<Str["manufacturer"], Str["manufacturing"], Str["industrial"], Str["machinery"],
          Str["automation"], Str["oem"], Str["supplier"], Str["component"],
          Str["fabricator"], Str["fabrication"], Str["steel"], Str["plastic"],
          Str["composite"], Str["metal"], Str["stamping"], Str["machining"],
          Str["aerospace"], Str["automotive"], Str["equipment"], Str["robotics"],
          Str["cnc"], Str["injection molding"], Str["food processing"], Str["packaging"]>>
    @@ Str["trucking"] :>
        <<Str["trucking"], Str["logistics"], Str["freight"], Str["carrier"], Str["ltl"],
          Str["ftl"], Str["last-mile"], Str["delivery"], Str["refrigerated"],
          Str["transport"], Str["tanker"], Str["fleet"], Str["heavy equipment"],
          Str["warehousing"], Str["distribution"], Str["supply chain"],
          Str["fleet maintenance"], Str["intermodal"], Str["hazardous material"]>>

\* IndustryDiscovery.industry_naics_codes, a dict from str to list
industry_naics_codes ==
    Str["construction"] :>
        <<Str["23"], Str["236"], Str["237"], Str["238"], Str["2361"], Str["2362"],
          Str["2371"], Str["2372"], Str["2373"], Str["2379"], Str["2381"], Str["2382"],
          Str["2383"], Str["2389"]>>
    @@ Str["manufacturing"] :>
        <<Str["31"], Str["32"], Str["33"], Str["331"], Str["332"], Str["333"], Str["334"],
          Str["335"], Str["336"], Str["337"], Str["339"], Str["3311"], Str["3312"],
          Str["3313"], Str["3314"], Str["3315"], Str["3321"], Str["3322"], Str["3323"],
          Str["3324"], Str["3325"], Str["3326"], Str["3327"], Str["3328"], Str["3329"]>>
    @@ Str["trucking"] :>
        <<Str["48"], Str["484"], Str["4841"], Str["4842"], Str["493"], Str["4931"],
          Str["49311"], Str["49312"], Str["49313"], Str["49319"]>>

_is_in_industry(c, industry_type) ==
    IF IsNone(c.industry) THEN FALSE
    ELSE LET industry == Val(c.industry)
         IN \/ /\ industry.primary # <<>>
               /\ Lower(normalize_industry(industry.primary).category) = Lower(industry_type)
            \/ /\ Truthy(industry.naics_code)
               /\ industry_type \in DOMAIN industry_naics_codes
               /\ \E k \in 1..Len(industry_naics_codes[industry_type]) :
                     LET code_prefix == industry_naics_codes[industry_type][k]
                     IN Prefix(Val(industry.naics_code), Len(code_prefix)) = code_prefix
            \/ /\ Truthy(c.description)
               /\ industry_type \in DOMAIN industry_keywords
               /\ AnyIn(industry_keywords[industry_type], Lower(Val(c.description)))

filter_companies_by_industry(cs, industry_type) ==
    SelectSeq(cs, LAMBDA c : _is_in_industry(c, industry_type))

filter_owner_operated_companies(cs) ==
    SelectSeq(cs, LAMBDA c :
        is_owner_operated(
            [employee_count |-> IF ~IsNone(c.financials) THEN Val(c.financials).employee_count
                                ELSE None,
             executives |-> [i \in 1..Len(c.executives) |-> [role |-> c.executives[i].role]],
             legal_structure |-> IF ~IsNone(c.legal_structure)
                                 THEN Str[LegalValue(Val(c.legal_structure))]
                                 ELSE Str[""],
             name |-> c.name]))

\* the list comprehension calls is_in_growth_mode for one company after the
\* other: the first call that raises ends it, and no list is returned
filter_growth_mode_companies(cs) ==
    LET called(c) ==
            is_in_growth_mode(
                [growth_rate |-> IF ~IsNone(c.financials) THEN Val(c.financials).growth_rate
                                 ELSE None,
                 description |-> IF Truthy(c.description) THEN c.description
                                 ELSE Some(Str[""]),
                 recent_developments |->
                     IF ~IsNone(c.tax_indicators)
                     THEN Val(c.tax_indicators).recent_developments ELSE Some(Str[""]),
                 financing_activity |->
                     IF ~IsNone(c.tax_indicators)
                     THEN Val(c.tax_indicators).financing_activity ELSE Some(Str[""])])
        raising == {i \in 1..Len(cs) : "raises" \in DOMAIN called(cs[i])}
    IN IF raising # {}
       THEN called(cs[CHOOSE i \in raising : \A j \in raising : i <= j])
       ELSE [returns |-> SelectSeq(cs, LAMBDA c : called(c).returns)]

----------------------------------------------------------------------------
(* the core functions, called with a list of companies *)

\* two sparse companies, one with nothing but a description, five with an
\* industry: a contractor that grows, a carrier by its NAICS code, a carrier by
\* its description, a large fabricator of no named industry, and a shop, and one
\* with nothing but a financing activity
DiscoveryPool ==
    LET Texts(recent_developments, financing_activity) ==
            Some([TaxIndicators EXCEPT !.recent_developments = recent_developments,
                                       !.financing_activity = financing_activity])
    IN { Company("company1", Str["company1"]),
         Company("company2", Str["Smith & Sons"]),
         [Company("company3", Str["company3"]) EXCEPT
             !.description = Some(Str["Steel fabricator"])],
         [Company("company4", Str["company4"]) EXCEPT
             !.industry = Some(Industry(Str["Construction"], Some(Str["236"]), None, <<>>)),
             !.legal_structure = Some("LLC"),
             !.financials = Fin(Some(100), None, Some(10))],
         [Company("company5", Str["company5"]) EXCEPT
             !.industry = Some(Industry(Str["Retail"], Some(Str["4841"]), None, <<>>)),
             !.tax_indicators = Texts(Some(Str["New facility opened"]), None)],
         [Company("company6", Str["company6"]) EXCEPT
             !.description = Some(Str["Regional freight carrier"]),
             !.industry = Some(Industry(Str["Services"], None, None, <<>>)),
             !.executives = <<[name |-> Str["Smith"], role |-> Str["Owner"]]>>,
             !.tax_indicators = Texts(Some(Str[""]), Some(Str["Bank loan approved"]))],
         [Company("company7", Str["company7"]) EXCEPT
             !.description = Some(Str["Steel fabricator"]),
             !.industry = Some(Industry(Str[""], Some(Str[""]), None, <<>>)),
             !.legal_structure = Some("FAMILY_OWNED"),
             !.financials = Fin(Some(1000), None, Some(2)),
             !.tax_indicators = Texts(Some(Str["Stable headcount"]), None)],
         [Company("company8", Str["company8"]) EXCEPT
             !.industry = Some(Industry(Str["Retail"], None, None, <<>>)),
             !.tax_indicators = Texts(Some(Str[""]), Some(Str[""]))],
         [Company("company9", Str["company9"]) EXCEPT
             !.tax_indicators = Texts(None, Some(Str["Bank loan approved"]))] }

MaxDiscovered == 2

InitDiscovery ==
    /\ FloatLiteralsOK
    /\ pc = "start"
    /\ companies \in SeqsUpTo(DiscoveryPool, MaxDiscovered)
    /\ target_industry \in {Some(Str["construction"]), Some(Str["manufacturing"]),
                            Some(Str["trucking"]), Some(Str["Construction"])}
    /\ Idle({"companies", "target_industry"})

\* one call of a core function with the list, or with companies of the list
CallCoreFunction ==
    /\ pc = "start"
    /\ \E function \in {"score_company_similarity", "score_tax_saving_potential",
                        "rank_companies_by_similarity", "rank_companies_by_tax_potential",
                        "filter_owner_operated_companies", "filter_growth_mode_companies",
                        "filter_companies_by_industry", "assign_companies_to_days",
                        "cluster_companies_by_region", "optimize_route"} :
          /\ function \in {"score_company_similarity", "score_tax_saving_potential",
                           "rank_companies_by_similarity"} => companies # <<>>
          /\ calls' =
                <<[function |-> function,
                   outcome |->
                      CASE function = "score_company_similarity" ->
                              [returns |-> score_company_similarity(
                                               companies[1], companies[Len(companies)])]
                        [] function = "score_tax_saving_potential" ->
                              [returns |-> score_tax_saving_potential(companies[1])]
                        [] function = "rank_companies_by_similarity" ->
                              [returns |-> rank_companies_by_similarity(
                                               companies[1], companies, 10)]
                        [] function = "rank_companies_by_tax_potential" ->
                              [returns |-> rank_companies_by_tax_potential(companies)]
                        [] function = "filter_owner_operated_companies" ->
                              [returns |-> filter_owner_operated_companies(companies)]
                        [] function = "filter_growth_mode_companies" ->
                              filter_growth_mode_companies(companies)
                        [] function = "filter_companies_by_industry" ->
                              [returns |-> filter_companies_by_industry(
                                               companies, Val(target_industry))]
                        [] function = "assign_companies_to_days" ->
                              [returns |-> assign_companies_to_days(
                                               companies, get_location_schedule(<<>>))]
                        [] function = "cluster_companies_by_region" ->
                              [returns |-> cluster_companies_by_region(companies)]
                        [] function = "optimize_route" ->
                              [returns |-> optimize_route(companies, None)]]>>
    /\ pc' = "done"
    /\ Frame({"pc", "calls"})

\* _is_in_industry(company, industry_type) for a company of the list
IsInIndustry ==
    /\ pc = "start"
    /\ \E i \in 1..Len(companies) :
          /\ company' = Some(companies[i])
          /\ calls' = <<[function |-> "_is_in_industry",
                         outcome |-> [returns |->
                                         _is_in_industry(companies[i], Val(target_industry))]]>>
    /\ pc' = "done"
    /\ Frame({"pc", "company", "calls"})

SpecDiscovery == InitDiscovery /\ [][CallCoreFunction \/ IsInIndustry]_vars

\* a company with only id and name set
Sparse(c) == c = Company(c.id, c.name)

\* C19 as stated: no core function raises for sparse companies: every call made
\* with a list of sparse companies returns a value.
C19_AsStated ==
    \A k \in 1..Len(calls) :
        (\A i \in 1..Len(companies) : Sparse(companies[i]))
            => "returns" \in DOMAIN calls[k].outcome

\* C19 witness: filter_growth_mode_companies was called with a list of one
\* sparse company and raised AttributeError.
C19_Witness ==
    /\ pc = "done"
    /\ Len(companies) = 1 /\ Sparse(companies[1])
    /\ calls = <<[function |-> "filter_growth_mode_companies",
                  outcome |-> [raises |-> "AttributeError"]]>>

\* the three signals of C20 for a company and a target
Signals(c, t) ==
    [category |->
        /\ ~IsNone(c.industry)
        /\ Lower(normalize_industry(Val(c.industry).primary).category) = Lower(t),
     naics |->
        /\ ~IsNone(c.industry) /\ ~IsNone(Val(c.industry).naics_code)
        /\ t \in DOMAIN industry_naics_codes
        /\ \E k \in 1..Len(industry_naics_codes[t]) :
              /\ Len(industry_naics_codes[t][k]) <= Len(Val(Val(c.industry).naics_code))
              /\ \A n \in 1..Len(industry_naics_codes[t][k]) :
                    Val(Val(c.industry).naics_code)[n] = industry_naics_codes[t][k][n],
     keyword |->
        /\ ~IsNone(c.description)
        /\ t \in DOMAIN industry_keywords
        /\ \E k \in 1..Len(industry_keywords[t]) :
              Contains(Lower(Val(c.description)), industry_keywords[t][k])]

\* C20 as stated: _is_in_industry returns true when (a) the normalized category
\* of the primary industry equals the target, or (b) the NAICS code starts with
\* one of the target's prefixes, or (c) one of the target's keywords appears in
\* the description, and false only when none of the three holds.
C20_AsStated ==
    \A k \in 1..Len(calls) :
        calls[k].function = "_is_in_industry" =>
            LET s == Signals(Val(company), Val(target_industry))
            IN calls[k].outcome.returns = (s.category \/ s.naics \/ s.keyword)

\* C20 witness: a company without an industry, whose description holds a
\* keyword of the target, was tested, and false was returned.
C20_Witness ==
    /\ pc = "done"
    /\ ~IsNone(company)
    /\ IsNone(Val(company).industry)
    /\ Signals(Val(company), Val(target_industry)).keyword
    /\ calls = <<[function |-> "_is_in_industry", outcome |-> [returns |-> FALSE]]>>

----------------------------------------------------------------------------
(* data_normalizer.py: normalize_employee_count *)

\* int(s) for a str: white space around the literal is dropped, a sign may lead,
\* and the digits may be grouped by single underscores. The call returns the
\* number or raises ValueError
int(s) ==
    LET inked == {i \in 1..Len(s) : s[i] \notin {" ", "\t", "\n"}}
        stripped == IF inked = {} THEN <<>>
                    ELSE SubSeq(s, CHOOSE i \in inked : \A j \in inked : i <= j,
                                   CHOOSE i \in inked : \A j \in inked : j <= i)
        signed == stripped # <<>> /\ stripped[1] \in {"+", "-"}
        body == IF signed THEN Tail(stripped) ELSE stripped
        decimal == <<"0", "1", "2", "3", "4", "5", "6", "7", "8", "9">>
        digits == SelectSeq(body, LAMBDA c : c # "_")
        value[i \in 0..Len(digits)] ==
            IF i = 0 THEN 0
            ELSE 10 * value[i - 1] + (CHOOSE d \in 0..9 : decimal[d + 1] = digits[i])
    IN IF /\ body # <<>>
          /\ \A i \in 1..Len(body) : body[i] \in Range(decimal) \cup {"_"}
          /\ body[1] # "_" /\ body[Len(body)] # "_"
          /\ \A i \in 1..(Len(body) - 1) : ~(body[i] = "_" /\ body[i + 1] = "_")
       THEN [returns |-> IF signed /\ stripped[1] = "-" THEN 0 - value[Len(digits)]
                         ELSE value[Len(digits)]]
       ELSE [raises |-> "ValueError"]

\* the argument is tagged with its type: NoneType, int or str. What is returned
\* is an int or None
normalize_employee_count(employee_count) ==
    LET text == employee_count.value
        replace(s, old) == SelectSeq(s, LAMBDA c : c # old)
        parts == SplitFrom(text, "-", <<0, <<>>, <<>>>>)
        lower == int(parts[1])
        upper == int(parts[2])
        suffixed == int(replace(replace(text, ","), "+"))
        simple == int(replace(text, ","))
    IN IF employee_count.type = "NoneType" THEN None
       ELSE IF employee_count.type = "int" THEN Some(employee_count.value)
       ELSE IF /\ "-" \in Range(text)
               /\ Len(parts) = 2
               /\ "returns" \in DOMAIN lower
               /\ "returns" \in DOMAIN upper
       THEN Some((lower.returns + upper.returns) \div 2)
       ELSE IF "+" \in Range(text) /\ "returns" \in DOMAIN suffixed
       THEN Some(suffixed.returns)
       ELSE IF "returns" \in DOMAIN simple
       THEN Some(simple.returns)
       ELSE None

----------------------------------------------------------------------------
(* the functions of data_normalizer.py, called one at a time *)

InitNormalizer ==
    /\ FloatLiteralsOK
    /\ pc = "start"
    /\ Idle({})

\* one call of normalize_industry, is_owner_operated or
\* normalize_employee_count; calls records the argument and what was returned
CallNormalizer ==
    /\ pc = "start"
    /\ \/ \E industry \in
               {Str[""], Str["Steel Fabrication"], Str["General Contractor"],
                Str["HVAC Contractor"], Str["Construction"], Str["Machinery"],
                Str["Industrial Automation"], Str["CNC Machining"],
                Str["Food Processing"], Str["Freight Carrier"],
                Str["Heavy Equipment Transport"], Str["Fleet Maintenance"],
                Str["Trucking"], Str["Retail"], Str["Logistics"], Str["Warehousing"],
                Str["Architecture"], Str["Excavation"], Str["Modular Homes"],
                Str["Plastic Injection Molding"], Str["Robotics"],
                Str["Refrigerated Transport"], Str["Intermodal"], Str["OEM Supplier"],
                Str["Automotive"], Str["Metal Stamping"], Str["Services"]} :
             calls' = <<[function |-> "normalize_industry",
                         argument |-> industry,
                         outcome |-> [returns |-> normalize_industry(industry)]]>>
       \/ \E employee_count \in {None, Some(0), Some(100), Some(500), Some(501), Some(1000)},
             executives \in {<<>>, <<[role |-> Str["Owner"]]>>, <<[role |-> Str["Manager"]]>>,
                             <<[role |-> Str["Sales Manager"]],
                               [role |-> Str["Co-Founder & CEO"]]>>},
             legal_structure \in {Str[""], Str["LLC"], Str["C-Corp"],
                                  Str["Family-Owned Business"], Str["Sole Proprietorship"]},
             name \in {Str["company1"], Str["Smith & Sons"], Str["Miller Brothers"],
                       Str["Acme Family Farms"], Str["Jones & Co"]} :
             LET company_data == [employee_count |-> employee_count,
                                  executives |-> executives,
                                  legal_structure |-> legal_structure,
                                  name |-> name]
             IN calls' = <<[function |-> "is_owner_operated",
                            argument |-> company_data,
                            outcome |-> [returns |-> is_owner_operated(company_data)]]>>
       \/ \E employee_count \in
               {<<"NoneType">>} \cup {<<"int", n>> : n \in {0, 7, 250}} :
             LET tagged == IF employee_count[1] = "NoneType" THEN [type |-> "NoneType"]
                           ELSE [type |-> "int", value |-> employee_count[2]]
             IN calls' = <<[function |-> "normalize_employee_count",
                            argument |-> tagged,
                            outcome |-> [returns |-> normalize_employee_count(tagged)]]>>
       \/ \E employee_count \in
               {Str["10-50"], Str["1,000+"], Str["1,000"], Str["250"], Str[""], Str["abc"],
                Str["10 - 50"], Str["50-10"], Str["1-2-3"], Str["1,000-5,000"], Str["5+"],
                Str["+5"], Str["1_000"], Str[" 12 "], Str["10-"], Str["ten-50"], Str["0"],
                Str["3-4"], Str["-5"], Str["-1,000"]} :
             LET tagged == [type |-> "str", value |-> employee_count]
             IN calls' = <<[function |-> "normalize_employee_count",
                            argument |-> tagged,
                            outcome |-> [returns |-> normalize_employee_count(tagged)]]>>
    /\ pc' = "done"
    /\ Frame({"pc", "calls"})

SpecNormalizer == InitNormalizer /\ [][CallNormalizer]_vars

\* the taxonomy of C21: for each category, in the order of the test, its
\* keyword set, its keyword groups with their subcategories, in the order of
\* the test, and the subcategory when no group matches
Taxonomy ==
    << [category |-> Str["Construction"],
        keywords |-> Range(industry_keywords[Str["construction"]]),
        groups |->
           << <<Str["General Contractors"],
                <<Str["general contractor"], Str["builder"]>>>>,
              <<Str["Engineering Firms"],
                <<Str["engineering"], Str["architect"]>>>>,
              <<Str["Specialty Trade Contractors"],
                <<Str["hvac"], Str["electrical"], Str["plumbing"], Str["concrete"],
                  Str["framing"], Str["insulation"]>>>>,
              <<Str["Excavation & Site Prep"],
                <<Str["excavation"], Str["site prep"]>>>>,
              <<Str["Modular & Prefab Construction"],
                <<Str["modular"], Str["prefab"]>>>>,
              <<Str["Building Materials Suppliers"],
                <<Str["building materials"], Str["steel"], Str["lumber"], Str["glass"],
                  Str["precast"], Str["fasteners"], Str["coatings"]>>>> >>,
        other |-> Str["Other Construction"]],
       [category |-> Str["Manufacturing"],
        keywords |-> Range(industry_keywords[Str["manufacturing"]]),
        groups |->
           << <<Str["Industrial Machinery & Automation"],
                <<Str["industrial machinery"], Str["automation"]>>>>,
              <<Str["OEM Suppliers & Component Manufacturers"],
                <<Str["oem"], Str["supplier"], Str["component"]>>>>,
              <<Str["Fabricators"],
                <<Str["fabricator"], Str["fabrication"], Str["steel"], Str["plastic"],
                  Str["composite"], Str["metal"], Str["stamping"], Str["machining"]>>>>,
              <<Str["Aerospace, Automotive & Heavy Equipment"],
                <<Str["aerospace"], Str["automotive"], Str["equipment"]>>>>,
              <<Str["Robotics & Automation"],
                <<Str["robotics"], Str["cnc"], Str["automation"]>>>>,
              <<Str["Injection Molding & Composite Materials"],
                <<Str["injection molding"], Str["composite"]>>>>,
              <<Str["Food Processing & Packaging"],
                <<Str["food processing"], Str["packaging"]>>>> >>,
        other |-> Str["Other Manufacturing"]],
       [category |-> Str["Trucking & Logistics"],
        keywords |-> Range(industry_keywords[Str["trucking"]]),
        groups |->
           << <<Str["Freight Carriers"],
                <<Str["freight"], Str["carrier"], Str["ltl"], Str["ftl"], Str["last-mile"],
                  Str["delivery"]>>>>,
              <<Str["Refrigerated Transport & Tanker Fleets"],
                <<Str["refrigerated"], Str["tanker"]>>>>,
              <<Str["Heavy Equipment Transporters"],
                <<Str["heavy equipment"]>>>>,
              <<Str["Warehousing & Distribution"],
                <<Str["warehousing"], Str["distribution"]>>>>,
              <<Str["Logistics Technology & Supply Chain"],
                <<Str["logistics"], Str["supply chain"]>>>>,
              <<Str["Fleet Maintenance & Repair"],
                <<Str["fleet maintenance"]>>>>,
              <<Str["Intermodal & Hazardous Material Haulers"],
                <<Str["intermodal"], Str["hazardous material"]>>>> >>,
        other |-> Str["Other Trucking & Logistics"]] >>

\* the category and the subcategory the rule of C21 gives for an input
Classified(industry) ==
    LET holds(kw) == Contains(Lower(industry), kw)
        matching == {c \in 1..Len(Taxonomy) : \E kw \in Taxonomy[c].keywords : holds(kw)}
        chosen == Taxonomy[CHOOSE c \in matching : \A d \in matching : c <= d]
        grouped == {g \in 1..Len(chosen.groups) :
                       \E k \in 1..Len(chosen.groups[g][2]) : holds(chosen.groups[g][2][k])}
    IN IF matching = {} THEN [category |-> Str["Other"], subcategory |-> None]
       ELSE [category |-> chosen.category,
             subcategory |->
                 Some(IF grouped = {} THEN chosen.other
                      ELSE chosen.groups[CHOOSE g \in grouped :
                                            \A h \in grouped : g <= h][1])]

\* C21 as stated: the three keyword sets are disjoint, the category is that of
\* the first set, in the order construction, manufacturing, trucking, with a
\* keyword contained in the lower-cased input, and 'Other' when no set matches;
\* the subcategory is that of the first matching keyword group of the category,
\* or 'Other <Category>' when no group matches.
C21_AsStated ==
    /\ \A c, d \in 1..Len(Taxonomy) :
          c # d => Taxonomy[c].keywords \cap Taxonomy[d].keywords = {}
    /\ \A k \in 1..Len(calls) :
          calls[k].function = "normalize_industry" =>
             LET rule == Classified(calls[k].argument)
             IN /\ calls[k].outcome.returns.category = rule.category
                /\ ~IsNone(rule.subcategory) =>
                      calls[k].outcome.returns.subcategory = Val(rule.subcategory)

\* C21: the construction and the manufacturing set share the keyword steel and
\* no other two sets share a keyword; for an input that is not empty the
\* category is that of the first set, in the order construction, manufacturing,
\* trucking, with a keyword contained in the lower-cased input, so that steel
\* counts as construction, and the subcategory is that of the first matching
\* group of the category, or 'Other <Category>'; when no set matches both are
\* 'Other'; for the empty input the category and the subcategory are empty.
C21_FirstMatchingSet ==
    /\ Taxonomy[1].keywords \cap Taxonomy[2].keywords = {Str["steel"]}
    /\ Taxonomy[1].keywords \cap Taxonomy[3].keywords = {}
    /\ Taxonomy[2].keywords \cap Taxonomy[3].keywords = {}
    /\ \A k \in 1..Len(calls) :
          calls[k].function = "normalize_industry" =>
             LET rule == Classified(calls[k].argument)
                 returned == calls[k].outcome.returns
             IN IF calls[k].argument = <<>>
                THEN returned.category = <<>> /\ returned.subcategory = <<>>
                ELSE /\ returned.primary = calls[k].argument
                     /\ returned.category = rule.category
                     /\ returned.subcategory =
                           IF IsNone(rule.subcategory) THEN Str["Other"]
                           ELSE Val(rule.subcategory)

\* C21 witness: normalize_industry was called with 'Steel Fabrication', which
\* holds a keyword of the construction set and of the manufacturing set, and
\* returned the category Construction.
C21_Witness ==
    /\ pc = "done"
    /\ Len(calls) = 1
    /\ calls[1].function = "normalize_industry"
    /\ calls[1].argument = Str["Steel Fabrication"]
    /\ calls[1].outcome.returns.category = Str["Construction"]
    /\ calls[1].outcome.returns.subcategory = Str["Building Materials Suppliers"]

\* the three signals of C22 for the dict company_data
OwnerSignals(company_data) ==
    LET within(kws, s) == \E kw \in kws : Contains(Lower(s), kw)
    IN [role |-> \E i \in 1..Len(company_data.executives) :
                    within({Str["owner"], Str["founder"], Str["president"], Str["ceo"],
                            Str["principal"]},
                           company_data.executives[i].role),
        legal_structure |-> within({Str["llc"], Str["family"], Str["proprietor"]},
                                   company_data.legal_structure),
        name |-> within({Str["family"], Str["& sons"], Str["& son"], Str["brothers"],
                         Str["& co"]},
                        company_data.name)]

\* C22: is_owner_operated returns false whenever employee_count is greater than
\* 500; when employee_count is absent or at most 500 it returns true exactly
\* when an executive role, the legal-structure text or the company name holds
\* one of its keywords, whatever the case of the letters.
C22_OwnerOperated ==
    \A k \in 1..Len(calls) :
        calls[k].function = "is_owner_operated" =>
            LET company_data == calls[k].argument
                signals == OwnerSignals(company_data)
            IN calls[k].outcome.returns =
                  IF ~IsNone(company_data.employee_count)
                     /\ Val(company_data.employee_count) > 500
                  THEN FALSE
                  ELSE signals.role \/ signals.legal_structure \/ signals.name

\* C22 witness: is_owner_operated was called for a company of 501 employees
\* with an owner among its executives, and returned false.
C22_Witness ==
    /\ pc = "done"
    /\ Len(calls) = 1
    /\ calls[1].function = "is_owner_operated"
    /\ calls[1].argument.employee_count = Some(501)
    /\ OwnerSignals(calls[1].argument).role
    /\ calls[1].outcome.returns = FALSE

\* C24 as stated: normalize_employee_count passes integers through, and every
\* result other than None that it returns for a string is an integer that is
\* at least 0; '10-50' gives 30 and '1,000+' gives 1000.
C24_AsStated ==
    \A k \in 1..Len(calls) :
        calls[k].function = "normalize_employee_count" =>
            LET employee_count == calls[k].argument
                returned == calls[k].outcome.returns
            IN /\ employee_count.type = "int" => returned = Some(employee_count.value)
               /\ employee_count.type = "str" =>
                     /\ ~IsNone(returned) => Val(returned) \in Nat
                     /\ employee_count.value = Str["10-50"] => returned = Some(30)
                     /\ employee_count.value = Str["1,000+"] => returned = Some(1000)

\* C24 witness: normalize_employee_count was called with the string '-5' and
\* returned -5.
C24_Witness ==
    /\ pc = "done"
    /\ calls = <<[function |-> "normalize_employee_count",
                  argument |-> [type |-> "str", value |-> Str["-5"]],
                  outcome |-> [returns |-> Some(0 - 5)]]>>

\* the four signals of C23 for a company, each false when its field is absent
GrowthSignals(c) ==
    LET within(kws, text) == ~IsNone(text) /\ \E kw \in kws : Contains(Lower(Val(text)), kw)
        recent_developments == IF IsNone(c.tax_indicators) THEN None
                               ELSE Val(c.tax_indicators).recent_developments
        financing_activity == IF IsNone(c.tax_indicators) THEN None
                              ELSE Val(c.tax_indicators).financing_activity
    IN [growth_rate |-> /\ ~IsNone(c.financials)
                        /\ ~IsNone(Val(c.financials).growth_rate)
                        /\ Val(Val(c.financials).growth_rate) >= 5,
        description |-> within({Str["hiring"], Str["expanding"], Str["growth"],
                                Str["new positions"], Str["job openings"], Str["career"],
                                Str["join our team"]},
                               c.description),
        recent_developments |-> within({Str["expansion"], Str["new facility"],
                                        Str["new location"], Str["growing"],
                                        Str["increased capacity"], Str["new equipment"],
                                        Str["investment"]},
                                       recent_developments),
        financing_activity |-> within({Str["funding"], Str["investment"], Str["capital"],
                                       Str["loan"], Str["financing"]},
                                      financing_activity)]

\* C23 as stated: filter_growth_mode_companies returns the companies of the
\* input, in input order, for which at least one of the four signals is true:
\* growth_rate >= 5, a hiring keyword in the description, an expansion keyword
\* in the recent developments, a funding keyword in the financing activity; one
\* true signal suffices when the other three fields are absent.
C23_AsStated ==
    \A k \in 1..Len(calls) :
        calls[k].function = "filter_growth_mode_companies" =>
            /\ "returns" \in DOMAIN calls[k].outcome
            /\ calls[k].outcome.returns =
                  SelectSeq(companies,
                            LAMBDA c : \/ GrowthSignals(c).growth_rate
                                       \/ GrowthSignals(c).description
                                       \/ GrowthSignals(c).recent_developments
                                       \/ GrowthSignals(c).financing_activity)

\* C23 witness: filter_growth_mode_companies was called with one company whose
\* only signal is a funding keyword in its financing activity, its description
\* and recent developments being absent, and raised AttributeError.
C23_Witness ==
    /\ pc = "done"
    /\ Len(companies) = 1
    /\ GrowthSignals(companies[1]) =
          [growth_rate |-> FALSE, description |-> FALSE,
           recent_developments |-> FALSE, financing_activity |-> TRUE]
    /\ IsNone(companies[1].description)
    /\ IsNone(Val(companies[1].tax_indicators).recent_developments)
    /\ calls = <<[function |-> "filter_growth_mode_companies",
                  outcome |-> [raises |-> "AttributeError"]]>>

----------------------------------------------------------------------------
(* app.py: BusinessLookupApp.find_similar_companies *)

\* ref is the company the call is made for; db_manager and data_collector are
\* the collaborators, each given by the list its method returns. What the call does is a dict: the calls made to the
\* collaborators, in order, and the list returned
find_similar_companies(ref, location, limit, db_manager, data_collector) ==
    LET has_industry == ~IsNone(ref.industry) /\ Val(ref.industry).primary # <<>>
        has_city == ~IsNone(ref.address) /\ Val(ref.address).city # <<>>
        search_criteria ==
            [key \in (IF has_industry THEN {"industry"} ELSE {})
                     \cup (IF Truthy(location) \/ has_city THEN {"location"} ELSE {}) |->
                IF key = "industry" THEN Val(ref.industry).primary
                ELSE IF Truthy(location) THEN Val(location)
                ELSE Val(ref.address).city]
        searched == db_manager.search_companies
        external_companies == data_collector.find_similar_companies
        candidate_companies == IF Len(searched) < 20 THEN searched \o external_companies
                               ELSE searched
    IN [calls |->
           <<[function |-> "db_manager.search_companies", argument |-> search_criteria]>>
           \o (IF Len(searched) < 20
               THEN <<[function |-> "data_collector.find_similar_companies",
                       argument |-> ref.id]>>
                    \o [i \in 1..Len(external_companies) |->
                           [function |-> "db_manager.save_company",
                            argument |-> external_companies[i].id]]
               ELSE <<>>),
        returns |-> rank_companies_by_similarity(ref, candidate_companies, limit)]

\* the lengths of the lists the database search returns
SearchedLengths == {0, 1, 2, 19, 20, 21}

MaxExternal == 2

\* candidates is what db_manager.search_companies returns, companies what
\* data_collector.find_similar_companies returns
InitApp ==
    /\ FloatLiteralsOK
    /\ pc = "start"
    /\ reference \in {Some(MakeCompany("company1", BaseProfile)),
                      Some(Company("company1", Str["company1"]))}
    /\ \E n \in SearchedLengths :
          \E found \in {MakeCompany("company2", BaseProfile),
                        MakeCompany("company3", ConstructionProfile)} :
             candidates = [i \in 1..n |-> found]
    /\ companies \in SeqsUpTo({MakeCompany("company4", ConstructionProfile),
                               MakeCompany("company5", BaseProfile)}, MaxExternal)
    /\ Idle({"reference", "candidates", "companies"})

FindSimilarCompanies ==
    /\ pc = "start"
    /\ \E location \in {None, Some(Str["Milwaukee"])} :
          LET called == find_similar_companies(
                            Val(reference), location, 10,
                            [search_companies |-> candidates],
                            [find_similar_companies |-> companies])
          IN /\ ranked' = Some(called.returns)
             /\ calls' = called.calls
    /\ pc' = "done"
    /\ Frame({"pc", "ranked", "calls"})

SpecApp == InitApp /\ [][FindSimilarCompanies]_vars

\* C25 as stated: when the database search returns a list that is not empty,
\* find_similar_companies ranks its candidates and returns them, and the calls
\* it makes hold no call of the data collector's find_similar_companies and no
\* save_company.
C25_AsStated ==
    (pc = "done" /\ candidates # <<>>) =>
        /\ Val(ranked) = rank_companies_by_similarity(Val(reference), candidates, 10)
        /\ \A k \in 1..Len(calls) :
              calls[k].function \notin {"data_collector.find_similar_companies",
                                        "db_manager.save_company"}

\* C25 witness: the search returned one candidate, as in the test, the data
\* collector was called after the search and returned nothing, and the one
\* candidate was returned.
C25_Witness ==
    /\ pc = "done"
    /\ Len(candidates) = 1 /\ candidates[1].id = "company2"
    /\ reference = Some(MakeCompany("company1", BaseProfile))
    /\ companies = <<>>
    /\ Len(calls) = 2
    /\ calls[1].function = "db_manager.search_companies"
    /\ calls[2].function = "data_collector.find_similar_companies"
    /\ Len(Val(ranked)) = 1 /\ Val(ranked)[1][1].id = "company2"

\* the sum of the edge distances along the optimized_order of the Route r, over
\* the companies r holds, from start
DistanceAlong(r, start) ==
    LET order == r.optimized_order
        d == _calculate_distance_matrix(r.companies, start)
        last == Max(Len(order), 1)
        sum[i \in 1..last] ==
            IF i = 1 THEN BigZero
            ELSE FAdd(sum[i - 1], d[order[i - 1] + 1][order[i] + 1])
    IN sum[last]

\* C27 as stated: in every state reached by optimize_route and add_company
\* calls, total_distance is the sum of the edge distances along optimized_order
\* over the companies the Route holds, and estimated_travel_time is
\* total_distance / 30.
C27_AsStated ==
    ~IsNone(route) =>
        /\ Val(route).total_distance = DistanceAlong(Val(route), Val(start_location))
        /\ Val(route).estimated_travel_time =
              IF Val(route).total_distance = BigZero THEN BigZero
              ELSE FDiv(Val(route).total_distance, FInt(30))

\* C27 witness: two companies were routed over a tour of 30 miles, then a third
\* was added: the Route holds three companies in the order 0, 1, 2, whose edges
\* sum to 20 miles, and total_distance is still 30 miles and
\* estimated_travel_time one hour.
C27_Witness ==
    /\ pc = "added"
    /\ Len(companies) = 2
    /\ Len(Val(route).companies) = 3
    /\ Val(route).optimized_order = <<0, 1, 2>>
    /\ DistanceAlong(Val(route), Val(start_location)) = FInt(20)
    /\ Val(route).total_distance = FInt(30)
    /\ Val(route).estimated_travel_time = FInt(1)

----------------------------------------------------------------------------
(* logistics_optimizer.py: generate_weekly_schedule *)

\* schedule is self.location_schedule; the dict from day to Route
generate_weekly_schedule(cs, schedule) ==
    LET companies_by_day == assign_companies_to_days(cs, schedule)
    IN [day \in DOMAIN companies_by_day |->
           IF companies_by_day[day] # <<>>
           THEN optimize_route(companies_by_day[day],
                               IF day = "Monday" THEN Str["Waukesha, WI"]
                               ELSE IF day = "Tuesday" THEN Str["Kenosha, WI"]
                               ELSE IF day = "Wednesday" THEN Str["Madison, WI"]
                               ELSE Str["Milwaukee, WI"])
           ELSE Route(Str[day])]

GenerateWeeklySchedule ==
    /\ pc = "start"
    /\ route' = Some(generate_weekly_schedule(companies, location_schedule))
    /\ pc' = "done"
    /\ Frame({"pc", "route"})

SpecSchedule == InitAssign /\ [][GenerateWeeklySchedule]_vars

\* C28 as stated: generate_weekly_schedule returns one Route for each of Monday
\* to Friday, the Route stored under day d carries the day label d, and its
\* companies are the companies with an address that assign_companies_to_days
\* placed in d.
C28_AsStated ==
    pc = "done" =>
        LET routes == Val(route)
            placed == assign_companies_to_days(companies, location_schedule)
        IN /\ DOMAIN routes = {"Monday", "Tuesday", "Wednesday", "Thursday", "Friday"}
           /\ \A d \in DOMAIN routes :
                 /\ routes[d].day = Str[d]
                 /\ Len(routes[d].companies) = Len(placed[d])
                 /\ \A i \in 1..Len(placed[d]) :
                       routes[d].companies[i].company_id = placed[d][i].id

\* C28 witness: a schedule was generated for one company in Kenosha, which is
\* placed in Tuesday, and the Route stored under Tuesday holds the company and
\* carries the day label Monday.
C28_Witness ==
    /\ pc = "done"
    /\ Len(companies) = 1
    /\ Val(companies[1].address).city = Str["Kenosha"]
    /\ Len(Val(route)["Tuesday"].companies) = 1
    /\ Val(route)["Tuesday"].companies[1].company_id = companies[1].id
    /\ Val(route)["Tuesday"].day = Str["Monday"]

\* the value C29 gives for a pair: that of the first rule, in the order of the
\* claim, whose condition holds
FirstApplicableRule(company1, company2) ==
    LET i1 == Val(company1.industry)
        i2 == Val(company2.industry)
        present(code1, code2) == /\ ~IsNone(code1) /\ Val(code1) # <<>>
                                 /\ ~IsNone(code2) /\ Val(code2) # <<>>
        naics == present(i1.naics_code, i2.naics_code)
        digits(code, n) == [k \in 1..Min(n, Len(Val(code))) |-> Val(code)[k]]
        set1 == {i1.subcategories[k] : k \in 1..Len(i1.subcategories)}
        set2 == {i2.subcategories[k] : k \in 1..Len(i2.subcategories)}
        holds(r) ==
            CASE r = 1 -> IsNone(company1.industry) \/ IsNone(company2.industry)
              [] r = 2 -> i1.primary = i2.primary
              [] r = 3 -> \/ naics /\ Val(i1.naics_code) = Val(i2.naics_code)
                          \/ /\ present(i1.sic_code, i2.sic_code)
                             /\ Val(i1.sic_code) = Val(i2.sic_code)
              [] r = 4 -> naics /\ digits(i1.naics_code, 2) = digits(i2.naics_code, 2)
              [] r = 5 -> naics /\ digits(i1.naics_code, 1) = digits(i2.naics_code, 1)
              [] r = 6 -> set1 \cap set2 # {}
              [] r = 7 -> TRUE
        value(r) ==
            CASE r = 1 -> Float["0.1"]
              [] r = 2 -> Float["1.0"]
              [] r = 3 -> Float["0.9"]
              [] r = 4 -> Float["0.8"]
              [] r = 5 -> Float["0.6"]
              [] r = 6 -> FAdd(Float["0.5"],
                               FDiv(FMul(Float["0.3"], FInt(Cardinality(set1 \cap set2))),
                                    FInt(Max(Cardinality(set1), Cardinality(set2)))))
              [] r = 7 -> Float["0.2"]
        first == CHOOSE r \in 1..7 : holds(r) /\ \A q \in 1..(r - 1) : ~holds(q)
    IN [rule |-> first, value |-> value(first)]

\* C29: _score_industry_similarity returns the value of the first rule that
\* applies, in the order: 0.1 if either industry is missing; 1.0 if the primary
\* labels are equal; 0.9 if both NAICS codes or both SIC codes are present and
\* equal; 0.8 if both NAICS codes are present and share their first two digits;
\* 0.6 if they share the first digit; 0.5 + 0.3 * |intersection| / max(|set1|,
\* |set2|) if the subcategory sets overlap; otherwise 0.2.
C29_FirstApplicableRule ==
    \A k \in 1..Len(calls) :
        calls[k].result = FirstApplicableRule(calls[k].company1, calls[k].company2).value

\* C29 witness: two pairs have been scored: one with equal labels and equal
\* codes, which scored 1.0 by the second rule, and one with NAICS codes of the
\* same first digit and different second digits, which scored 0.6 by the fifth
\* rule.
C29_Witness ==
    /\ Len(calls) = 2
    /\ FirstApplicableRule(calls[1].company1, calls[1].company2).rule = 2
    /\ Val(calls[1].company1.industry).naics_code = Val(calls[1].company2.industry).naics_code
    /\ calls[1].result = Float["1.0"]
    /\ FirstApplicableRule(calls[2].company1, calls[2].company2).rule = 5
    /\ calls[2].result = Float["0.6"]

----------------------------------------------------------------------------
(* database.py: DatabaseManager *)

\* the tables after _create_tables_if_not_exist on a new file: a table with a
\* primary key is a dict from the key to the other columns of its row, and
\* executives is the list of its rows in the order of their insertion
NoRows ==
    [companies |-> <<>>, addresses |-> <<>>, industries |-> <<>>, executives |-> <<>>,
     financials |-> <<>>, tax_indicators |-> <<>>, locations |-> <<>>]

\* TaxSavingPotential.<member>.value
PotentialValue(m) ==
    CASE m = "HIGH" -> "High"
      [] m = "MEDIUM" -> "Medium"
      [] m = "LOW" -> "Low"

\* the tables after a save_company(c) that returns True. An INSERT OR REPLACE
\* puts the row in the place of the row of the same key; last_updated, the time
\* of the call, is left out
save_company(tables, c) ==
    LET replaced(table, row) == (c.id :> row) @@ table
        json_dumps(xs) ==
            LET joined[k \in 0..Len(xs)] ==
                    IF k = 0 THEN <<>>
                    ELSE joined[k - 1] \o (IF k = 1 THEN <<>> ELSE <<",", " ">>)
                         \o <<"\"">> \o xs[k] \o <<"\"">>
            IN <<"[">> \o joined[Len(xs)] \o <<"]">>
    IN [companies |->
           replaced(tables.companies,
                    [name |-> c.name, description |-> c.description, website |-> c.website,
                     legal_structure |->
                         IF ~IsNone(c.legal_structure)
                         THEN Some(Str[LegalValue(Val(c.legal_structure))]) ELSE None]),
        addresses |->
           IF ~IsNone(c.address) THEN replaced(tables.addresses, Val(c.address))
           ELSE tables.addresses,
        industries |->
           IF ~IsNone(c.industry)
           THEN replaced(tables.industries,
                         [primary_industry |-> Val(c.industry).primary,
                          naics_code |-> Val(c.industry).naics_code,
                          sic_code |-> Val(c.industry).sic_code,
                          subcategories |-> json_dumps(Val(c.industry).subcategories)])
           ELSE tables.industries,
        executives |->
           IF c.executives # <<>>
           THEN SelectSeq(tables.executives, LAMBDA row : row.company_id # c.id)
                \o [k \in 1..Len(c.executives) |->
                       [company_id |-> c.id, name |-> c.executives[k].name,
                        role |-> c.executives[k].role,
                        business_history |-> c.executives[k].business_history,
                        tenure |-> c.executives[k].tenure,
                        phone |-> c.executives[k].contact.phone,
                        email |-> c.executives[k].contact.email,
                        linkedin_url |-> c.executives[k].contact.linkedin_url]]
           ELSE tables.executives,
        financials |->
           IF ~IsNone(c.financials) THEN replaced(tables.financials, Val(c.financials))
           ELSE tables.financials,
        tax_indicators |->
           IF ~IsNone(c.tax_indicators)
           THEN replaced(tables.tax_indicators,
                         [Val(c.tax_indicators) EXCEPT
                             !.tax_saving_potential = Some(Str[PotentialValue(@)])])
           ELSE tables.tax_indicators,
        locations |->
           IF ~IsNone(c.location) THEN replaced(tables.locations, Val(c.location))
           ELSE tables.locations]

\* get_company(company_id): the Company made of the rows of the key, or None
get_company(tables, company_id) ==
    LET company_row == tables.companies[company_id]
        industry_row == tables.industries[company_id]
        tax_row == tables.tax_indicators[company_id]
        json_loads(text) ==
            LET parts == SplitFrom(text, "\"", <<0, <<>>, <<>>>>)
            IN [k \in 1..(Len(parts) \div 2) |-> parts[2 * k]]
        executive_rows == SelectSeq(tables.executives, LAMBDA row : row.company_id = company_id)
    IN IF company_id \notin DOMAIN tables.companies THEN None
       ELSE Some(
          [id |-> company_id,
           name |-> company_row.name,
           description |-> company_row.description,
           website |-> company_row.website,
           legal_structure |->
               IF Truthy(company_row.legal_structure)
               THEN Some(CHOOSE m \in LegalStructure :
                            Str[LegalValue(m)] = Val(company_row.legal_structure))
               ELSE None,
           address |->
               IF company_id \in DOMAIN tables.addresses
               THEN Some(tables.addresses[company_id]) ELSE None,
           industry |->
               IF company_id \in DOMAIN tables.industries
               THEN Some(Industry(industry_row.primary_industry, industry_row.naics_code,
                                  industry_row.sic_code,
                                  IF industry_row.subcategories # <<>>
                                  THEN json_loads(industry_row.subcategories) ELSE <<>>))
               ELSE None,
           executives |->
               [k \in 1..Len(executive_rows) |->
                   [name |-> executive_rows[k].name, role |-> executive_rows[k].role,
                    business_history |-> executive_rows[k].business_history,
                    tenure |-> executive_rows[k].tenure,
                    contact |-> [phone |-> executive_rows[k].phone,
                                 email |-> executive_rows[k].email,
                                 linkedin_url |-> executive_rows[k].linkedin_url]]],
           financials |->
               IF company_id \in DOMAIN tables.financials
               THEN Some(tables.financials[company_id]) ELSE Some(Financials),
           tax_indicators |->
               IF company_id \in DOMAIN tables.tax_indicators
               THEN Some([tax_row EXCEPT
                             !.tax_saving_potential =
                                 IF Truthy(@)
                                 THEN CHOOSE m \in TaxSavingPotential :
                                         Str[PotentialValue(m)] = Val(@)
                                 ELSE "LOW"])
               ELSE Some(TaxIndicators),
           location |->
               IF company_id \in DOMAIN tables.locations
               THEN Some(tables.locations[company_id]) ELSE None])

\* a company with every part, the same company with nothing but its name, the
\* same company at another address with other executives, and another company
DatabasePool ==
    LET Executive(name, role) ==
            [name |-> Str[name], role |-> Str[role],
             contact |-> [phone |-> None, email |-> None, linkedin_url |-> None],
             business_history |-> None, tenure |-> None]
    IN { [Company("company1", Str["company1"]) EXCEPT
             !.address = Some(Address(Str["123 Main St"], Str["Milwaukee"], Str["WI"],
                                      Str["53202"])),
             !.industry = Some(Industry(Str["Manufacturing"], Some(Str["333"]), None,
                                        <<Str["Machinery"], Str["Welding"]>>)),
             !.executives = <<Executive("Smith", "Owner")>>,
             !.legal_structure = Some("FAMILY_OWNED"),
             !.financials = Fin(Some(100), Some(Pow10(6)), Some(5)),
             !.location = Some(GeoLocation(4304, -8791, Some(Str["Tuesday"])))],
         Company("company1", Str["company1"]),
         [Company("company1", Str["company1"]) EXCEPT
             !.address = Some(Address(Str["456 Oak St"], Str["Madison"], Str["WI"],
                                      Str["53703"])),
             !.executives = <<Executive("Jones", "President"), Executive("Smith", "Owner")>>,
             !.tax_indicators = Some([TaxIndicators EXCEPT !.tax_saving_potential = "HIGH"])],
         [Company("company2", Str["company2"]) EXCEPT
             !.industry = Some(Industry(Str["Construction"], Some(Str["236"]),
                                        Some(Str["1500"]), <<>>)),
             !.legal_structure = Some("S_CORP")] }

\* the number of calls made
MaxDatabaseCalls == 3

InitDatabase ==
    /\ FloatLiteralsOK
    /\ pc = "start"
    /\ db = NoRows
    /\ Idle({"db"})

\* save_company(c), which returns True
SaveCompany ==
    /\ Len(calls) < MaxDatabaseCalls
    /\ \E c \in DatabasePool :
          /\ db' = save_company(db, c)
          /\ calls' = Append(calls, [function |-> "save_company", argument |-> c.id,
                                     company |-> Some(c), outcome |-> [returns |-> Some(TRUE)]])
    /\ pc' = "saved"
    /\ Frame({"pc", "db", "calls"})

\* get_company(company_id)
GetCompany ==
    /\ Len(calls) < MaxDatabaseCalls
    /\ \E company_id \in {"company1", "company2", "company3"} :
          calls' = Append(calls, [function |-> "get_company", argument |-> company_id,
                                  company |-> None,
                                  outcome |-> [returns |-> get_company(db, company_id)]])
    /\ pc' = "got"
    /\ Frame({"pc", "calls"})

SpecDatabase == InitDatabase /\ [][SaveCompany \/ GetCompany]_vars

\* the positions in calls of the saves of company_id made before position k
SavedBefore(company_id, k) ==
    {j \in 1..(k - 1) : calls[j].function = "save_company" /\ calls[j].argument = company_id}

\* C30 as stated: after any sequence of save_company calls, get_company(id)
\* returns a Company whose address, industry, executives, financials, tax
\* indicators and location equal those of the Company saved last with that id,
\* and None for an id that was never saved.
C30_AsStated ==
    \A k \in 1..Len(calls) :
        calls[k].function = "get_company" =>
            LET saved == SavedBefore(calls[k].argument, k)
                last == Val(calls[CHOOSE j \in saved : \A i \in saved : i <= j].company)
                got == Val(calls[k].outcome.returns)
            IN IF saved = {} THEN IsNone(calls[k].outcome.returns)
               ELSE /\ ~IsNone(calls[k].outcome.returns)
                    /\ got.address = last.address
                    /\ got.industry = last.industry
                    /\ got.executives = last.executives
                    /\ got.financials = last.financials
                    /\ got.tax_indicators = last.tax_indicators
                    /\ got.location = last.location

\* C30 witness: company1 was saved with an address, an industry, an executive
\* and a location, then saved again with none of them, and get_company then
\* returned the address, the industry, the executive and the location of the
\* first save.
C30_Witness ==
    /\ pc = "got"
    /\ Len(calls) = 3
    /\ calls[1].function = "save_company" /\ calls[1].argument = "company1"
    /\ calls[2].function = "save_company"
    /\ calls[2].company = Some(Company("company1", Str["company1"]))
    /\ calls[3].function = "get_company" /\ calls[3].argument = "company1"
    /\ ~IsNone(Val(calls[1].company).address)
    /\ Val(calls[3].outcome.returns).address = Val(calls[1].company).address
    /\ Val(calls[3].outcome.returns).industry = Val(calls[1].company).industry
    /\ Val(calls[3].outcome.returns).executives = Val(calls[1].company).executives
    /\ Val(calls[3].outcome.returns).location = Val(calls[1].company).location

----------------------------------------------------------------------------
(* logistics_optimizer.py: two invocations of optimize_route, step by step *)

\* a variant in which every Route is given the same list, as with a mutable
\* default value
shared_default(lists) == 1

\* field(default_factory=list): every Route is given a list of its own, the
\* next address of the heap
default_factory(lists) == Len(lists) + 1

\* the companies of the two invocations: two with an address, one of them with
\* a region, and one without an address
InterleavedPool ==
    {c \in RoutePool : c.id \in {"company1", "company2", "company4"}}

MaxInterleaved == 2

\* invocation 1 is made for Monday from Waukesha, invocation 2 for Tuesday from
\* Kenosha, each with a list of its own
InitInterleaved ==
    /\ FloatLiteralsOK
    /\ pc = "start"
    /\ heap = <<>>
    /\ \E companies1 \in SeqsUpTo(InterleavedPool, MaxInterleaved),
          companies2 \in SeqsUpTo(InterleavedPool, MaxInterleaved) :
          invocations =
             <<[at |-> "start", arguments |-> [companies |-> companies1,
                                               start_location |-> Str["Waukesha, WI"]]],
               [at |-> "start", arguments |-> [companies |-> companies2,
                                               start_location |-> Str["Kenosha, WI"]]]>>
    /\ Idle({"heap", "invocations"})

\* one step of invocation p: the creation of the Route, one add_company of the
\* loop, the distance matrix, the tour, or the total with the return. A Route
\* holds the address of its list of companies
OptimizeRouteStep(p) ==
    LET self == invocations[p]
        cs == self.arguments.companies
        stored(r) == [r EXCEPT !.companies = heap[r.companies]]
    IN \/ /\ self.at = "start"
          /\ heap' = Append(heap, <<>>)
          /\ invocations' =
                [invocations EXCEPT ![p] =
                    IF cs = <<>>
                    THEN [at |-> "done", arguments |-> self.arguments,
                          route |-> [Route(Str[""]) EXCEPT !.companies = Len(heap) + 1]]
                    ELSE [at |-> "add", arguments |-> self.arguments, taken |-> 0,
                          route |->
                             [Route(IF ~IsNone(cs[1].location)
                                       /\ Truthy(Val(cs[1].location).region)
                                    THEN Val(Val(cs[1].location).region)
                                    ELSE Str["Monday"])
                              EXCEPT !.companies = default_factory(heap)]]]
       \/ /\ self.at = "add"
          /\ self.taken < Len(cs)
          /\ LET added == add_company(stored(self.route), cs[self.taken + 1], 0)
             IN /\ heap' = [heap EXCEPT ![self.route.companies] = added.companies]
                /\ invocations' =
                      [invocations EXCEPT
                          ![p].taken = @ + 1,
                          ![p].route = [added EXCEPT !.companies = self.route.companies]]
       \/ /\ self.at = "add"
          /\ self.taken = Len(cs)
          /\ invocations' =
                [invocations EXCEPT ![p] =
                    IF heap[self.route.companies] = <<>>
                    THEN [at |-> "done", arguments |-> self.arguments, route |-> self.route]
                    ELSE [at |-> "tsp", arguments |-> self.arguments, route |-> self.route,
                          distances |->
                             _calculate_distance_matrix(heap[self.route.companies],
                                                        self.arguments.start_location)]]
          /\ heap' = heap
       \/ /\ self.at = "tsp"
          /\ invocations' =
                [invocations EXCEPT
                    ![p].at = "total",
                    ![p].route.optimized_order = _solve_tsp_greedy(self.distances)]
          /\ heap' = heap
       \/ /\ self.at = "total"
          /\ LET total_distance == TotalDistanceFrom(self.distances,
                                                     self.route.optimized_order,
                                                     <<0, BigZero>>)
             IN invocations' =
                   [invocations EXCEPT ![p] =
                       [at |-> "done", arguments |-> self.arguments,
                        route |-> [self.route EXCEPT
                                      !.total_distance = total_distance,
                                      !.estimated_travel_time =
                                          FDiv(total_distance, FInt(30))]]]
          /\ heap' = heap

Interleave ==
    /\ \E p \in 1..2 : OptimizeRouteStep(p)
    /\ pc' = IF \A p \in 1..2 : invocations'[p].at = "done" THEN "done" ELSE "start"
    /\ Frame({"pc", "heap", "invocations"})

SpecInterleaved == InitInterleaved /\ [][Interleave]_vars

\* C26: however the steps of two optimize_route invocations are interleaved,
\* each returns the Route it returns when run alone, with the same companies,
\* optimized_order, total_distance and estimated_travel_time, and the two
\* Routes hold different lists.
C26_Independent ==
    /\ \A p \in 1..2 :
          invocations[p].at = "done" =>
             LET returned == invocations[p].route
                 alone == optimize_route(invocations[p].arguments.companies,
                                         invocations[p].arguments.start_location)
             IN /\ heap[returned.companies] = alone.companies
                /\ returned.optimized_order = alone.optimized_order
                /\ returned.total_distance = alone.total_distance
                /\ returned.estimated_travel_time = alone.estimated_travel_time
                /\ returned.day = alone.day
    /\ (invocations[1].at # "start" /\ invocations[2].at # "start")
          => invocations[1].route.companies # invocations[2].route.companies

\* C26 witness: the second invocation created its Route first and has added
\* one company of its two; meanwhile the first invocation ran to its end and
\* returned a Route of two companies with a tour over both and 30.0 miles.
C26_Witness ==
    /\ invocations[2].at = "add"
    /\ invocations[2].taken = 1
    /\ invocations[2].route.companies = 1
    /\ Len(heap[1]) = 1
    /\ Len(invocations[2].arguments.companies) = 2
    /\ invocations[1].at = "done"
    /\ invocations[1].route.companies = 2
    /\ Len(heap[2]) = 2
    /\ invocations[1].route.optimized_order = <<0, 1, 2, 0>>
    /\ invocations[1].route.total_distance = FInt(30)
    /\ invocations[1].route.day # invocations[2].route.day
====
